---- MODULE Spec2Model ----
(***************************************************************************)
(* A model of the OneCrypto loader / ABI layer:                            *)
(*   - the host PE/COFF loader (Test/Fuzz/PeCoffLoaderHost.c),             *)
(*   - the module entry functions (OneCryptoBin/OneCryptoBin.c) and the    *)
(*     CRT dependency holder (Library/OneCryptoCrtLib/OneCryptoCrtLib.c),  *)
(*   - the loaders that bootstrap the module (OneCryptoLoaders/*.c).       *)
(*                                                                         *)
(* Multi-byte integers of the image are kept as little-endian byte tuples, *)
(* exactly as they lie in the file, so that 32- and 64-bit arithmetic      *)
(* wraps at its own width.  Offsets into buffers are naturals, saturated   *)
(* at Far (every buffer of the model is far smaller than Far).             *)
(***************************************************************************)
EXTENDS Integers, Naturals, Sequences, FiniteSets, TLC

VARIABLES
  peIn,      \* the last input handed to PeCoffLoadImage (file, environment)
  peOut,     \* what PeCoffLoadImage did with it (result record)
  mCryptoDependencies,  \* OneCryptoCrtLib.c: the dependency table the module retains
  call,      \* the last call of an entry function: arguments and outcome
  prev,      \* the call before it: what the caller keeps of it
  loader,    \* which loader this system runs: "Dxe", "DxeByProtocol" or "Host"
  mOneCryptoDepends,   \* the DXE loaders' dependency table pointer
  mOneCryptoProtocol,  \* the loader's retained capability table pointer
  heap,      \* pool / malloc allocations: the live ones and the freed ones
  installed, \* the interface installed under gOneCryptoProtocolGuid
  run,       \* the last run of a loader function: what it did and returned
  crt,       \* the last call of a CRT wrapper of OneCryptoCrtLib.c
  find,      \* PeCoffFindExport: its input (image, name) and what it returned
  fuzz,      \* the fuzz harness: its statics, its heap, its last call
  race,      \* two invocations stepping through an already-initialized guard
  rng,       \* LazyPlatformGetRandomNumber64: its cache, its lookups, its last call
  hob        \* DiscoverCryptoBinary: the firmware volumes and what it returned

peVars == <<peIn, peOut>>
entryVars == <<mCryptoDependencies, call, prev>>
loaderVars == <<loader, mOneCryptoDepends, mOneCryptoProtocol, heap, installed, run>>
harnessVars == <<find, fuzz, race>>
platformVars == <<rng, hob>>
vars == <<peIn, peOut, mCryptoDependencies, call, prev,
          loader, mOneCryptoDepends, mOneCryptoProtocol, heap, installed, run,
          crt, find, fuzz, race, rng, hob>>

(***************************************************************************)
(* Little-endian byte arithmetic                                           *)
(***************************************************************************)
Far == 256 * 256 * 256

Cap(n) == IF n >= Far THEN Far ELSE n

\* n < 2^31 as a little-endian tuple of w bytes
LE(n, w) ==
  [i \in 1..w |->
     CASE i = 1 -> n % 256
       [] i = 2 -> (n \div 256) % 256
       [] i = 3 -> (n \div 65536) % 256
       [] i = 4 -> (n \div 16777216) % 256
       [] OTHER -> 0]

\* the value of a byte tuple as an offset: exact below Far, Far otherwise
Val(b) ==
  IF \E i \in 4..Len(b) : b[i] # 0
  THEN Far
  ELSE b[1] + 256 * (IF Len(b) >= 2 THEN b[2] ELSE 0)
            + 65536 * (IF Len(b) >= 3 THEN b[3] ELSE 0)

\* zero extension to w bytes (an unsigned integer conversion to a wider type)
ZExt(b, w) == [i \in 1..w |-> IF i <= Len(b) THEN b[i] ELSE 0]

\* truncation to w bytes (a conversion to a narrower unsigned type)
\* the faulty variant keeps the high bytes
TruncHigh(b, w) == SubSeq(b, Len(b) - w + 1, Len(b))

Trunc(b, w) == [i \in 1..w |-> b[i]]

RECURSIVE AddCarry(_, _, _, _)
AddCarry(a, b, i, c) ==
  IF i > Len(a) THEN <<>>
  ELSE LET s == a[i] + b[i] + c
       IN  <<s % 256>> \o AddCarry(a, b, i + 1, s \div 256)

\* a + b modulo 256^Len(a)
\* the faulty variant drops the carries
AddLENoCarry(a, b) == [i \in 1..Len(a) |-> (a[i] + b[i]) % 256]

AddLE(a, b) == AddCarry(a, b, 1, 0)

RECURSIVE SubBorrow(_, _, _, _)
SubBorrow(a, b, i, c) ==
  IF i > Len(a) THEN <<>>
  ELSE LET s == a[i] - b[i] - c
       IN  <<(s + 256) % 256>> \o SubBorrow(a, b, i + 1, IF s < 0 THEN 1 ELSE 0)

\* a - b modulo 256^Len(a)
SubLE(a, b) == SubBorrow(a, b, 1, 0)

RECURSIVE LtFrom(_, _, _)
LtFrom(a, b, i) ==
  IF i = 0 THEN FALSE
  ELSE IF a[i] # b[i] THEN a[i] < b[i]
  ELSE LtFrom(a, b, i - 1)

\* a < b, both of the same width
LtLE(a, b) == LtFrom(a, b, Len(a))

IsZero(b) == \A i \in 1..Len(b) : b[i] = 0

Zeros(n) == [i \in 1..n |-> 0]

Min(a, b) == IF a <= b THEN a ELSE b

(***************************************************************************)
(* Raw memory.  A buffer is a tuple of bytes; offset o is element o + 1.   *)
(* RdMem reads len bytes at off from the memory the buffer lies in: bytes  *)
(* past the tuple read as 0.  Splice writes bs at off, clipped to the      *)
(* tuple (bytes that fall outside land in memory the model does not keep). *)
(***************************************************************************)
RdMem(m, off, len) ==
  IF off + len <= Len(m)
  THEN SubSeq(m, off + 1, off + len)
  ELSE [i \in 1..len |-> IF off + i <= Len(m) THEN m[off + i] ELSE 0]

\* the faulty variant writes one byte too far
SpliceShifted(m, off, bs) ==
  LET n == Len(m)
      k == IF off + 1 >= n THEN 0 ELSE Min(Len(bs), n - off - 1)
  IN  IF k = 0 THEN m
      ELSE SubSeq(m, 1, off + 1) \o SubSeq(bs, 1, k) \o SubSeq(m, off + k + 2, n)

Splice(m, off, bs) ==
  LET n == Len(m)
      k == IF off >= n THEN 0 ELSE Min(Len(bs), n - off)
  IN  IF k = 0 THEN m
      ELSE SubSeq(m, 1, off) \o SubSeq(bs, 1, k) \o SubSeq(m, off + k + 1, n)

(***************************************************************************)
(* PE/COFF layout (PeCoffLoaderHost.h, structures packed to 1 byte)        *)
(***************************************************************************)
MinFileSize == 64
OffLfanew == 60
DosMagic == 23117
PeSignature == 17744
Hdr64Magic == 523
Hdr32Magic == 267
SizeofSignature == 4
SizeofFileHeader == 20
FhNumberOfSections == 2
FhSizeOfOptionalHeader == 16
SizeofOptHeader == 112
OhImageBase == 24
OhSizeOfImage == 56
OhSizeOfHeaders == 60
OhNumberOfRvaAndSizes == 108
SizeofDataDir == 8
DirBaseReloc == 5
SizeofSection == 40
ShVirtualSize == 8
ShVirtualAddress == 12
ShSizeOfRawData == 16
ShPointerToRawData == 20
SizeofRelocBlock == 8
RelAbsolute == 0
RelHigh == 1
RelHighLow == 3
RelDir64 == 10

(***************************************************************************)
(* Input files.  Every input is the image below with some of its fields    *)
(* replaced: DOS header, PE signature, file header, optional header with   *)
(* six data directories, MaxSections section headers, the raw data of      *)
(* section 0 (DataLen bytes holding the fields the fixups point at) and of *)
(* section 1 (one base-relocation block of up to MaxEntries entries).      *)
(* The bytes past fileSize are what lies behind the file buffer in memory. *)
(***************************************************************************)
MaxSections == 2
MaxEntries == 2

TplPe == MinFileSize
TplOpt == TplPe + SizeofSignature + SizeofFileHeader
TplOptSize == SizeofOptHeader + (DirBaseReloc + 1) * SizeofDataDir
TplSecs == TplOpt + TplOptSize
TplHdrEnd == TplSecs + MaxSections * SizeofSection
DataLen == 2 * SizeofDataDir
RelocLen == SizeofRelocBlock + 2 * MaxEntries
TplData == TplHdrEnd
TplReloc == TplData + DataLen
MemLen == TplReloc + RelocLen
ImgData == TplHdrEnd + 8
ImgReloc == ImgData + DataLen
ImgSize == ImgReloc + RelocLen + 8

U32(n) == LE(n, 4)
\* 2^32 - k and 2^64 - k
Neg32(k) == SubLE(LE(0, 4), LE(k, 4))
Neg64(k) == SubLE(LE(0, 8), LE(k, 8))

\* where mmap places the image, and two other preferred bases
LoadAddr == <<0, 0, 16, 0, 0, 127, 0, 0>>
PrefLow == <<0, 0, 0, 128, 1, 0, 0, 0>>
PrefHigh == <<0, 0, 32, 0, 0, 127, 0, 0>>
PrefSameLow == <<0, 0, 16, 0, 1, 0, 0, 0>>

SecHdr(name, va, raw, ptr) ==
  name \o raw \o va \o raw \o ptr \o Zeros(16)

SecName(i) == <<46, 115, 48 + i, 0, 0, 0, 0, 0>>

EncodeEntry(e) == LE(e.type * 4096 + e.off, 2)

RECURSIVE EncodeEntries(_)
EncodeEntries(es) ==
  IF es = <<>> THEN <<>> ELSE EncodeEntry(Head(es)) \o EncodeEntries(Tail(es))

Build(f) ==
  LET dos == LE(f.dosSig, 2) \o Zeros(OffLfanew - 2) \o f.peOff
      fh  == Zeros(FhNumberOfSections) \o LE(f.nSections, 2) \o Zeros(12)
             \o LE(f.optSize, 2) \o Zeros(2)
      oh  == LE(f.magic, 2) \o Zeros(OhImageBase - 2) \o f.imageBase
             \o Zeros(OhSizeOfImage - OhImageBase - 8)
             \o f.sizeOfImage \o f.sizeOfHeaders
             \o Zeros(OhNumberOfRvaAndSizes - OhSizeOfHeaders - 4)
             \o LE(f.nRva, 4)
      dd  == Zeros(DirBaseReloc * SizeofDataDir) \o f.relocVa \o f.relocSize
      sh(i) == IF i = 0 THEN SecHdr(SecName(0), f.sec.va, f.sec.raw, f.sec.ptr)
               ELSE IF i = 1
               THEN SecHdr(SecName(1), U32(ImgReloc), U32(RelocLen), U32(TplReloc))
               ELSE SecHdr(SecName(i), U32(0), U32(0), U32(0))
      shs[i \in 0..MaxSections] ==
        IF i = MaxSections THEN <<>> ELSE sh(i) \o shs[i + 1]
      data == [i \in 1..DataLen |-> 7 * i + 3]
      ents == EncodeEntries(f.entries)
      rel  == f.blockPage \o f.blockSize \o ents
              \o Zeros(RelocLen - SizeofRelocBlock - Len(ents))
  IN  dos \o LE(f.peSig, 4) \o fh \o oh \o dd \o shs[0] \o data \o rel

Base ==
  [ fileSize |-> MemLen, dosSig |-> DosMagic, peOff |-> U32(TplPe),
    peSig |-> PeSignature, magic |-> Hdr64Magic, imageBase |-> LoadAddr,
    sizeOfImage |-> U32(ImgSize), sizeOfHeaders |-> U32(TplHdrEnd),
    nSections |-> MaxSections, optSize |-> TplOptSize, nRva |-> DirBaseReloc + 1,
    relocVa |-> U32(ImgReloc), relocSize |-> U32(RelocLen),
    sec |-> [va |-> U32(ImgData), raw |-> U32(DataLen), ptr |-> U32(TplData)],
    blockPage |-> U32(ImgData),
    blockSize |-> U32(SizeofRelocBlock + 2),
    entries |-> <<[type |-> RelDir64, off |-> 8]>> ]

(***************************************************************************)
(* PeCoffLoadImage (PeCoffLoaderHost.c).  The result records what the call *)
(* returned and everything it did: the accesses to the file buffer         *)
(* (reads), the header and section copies, the accesses of the relocation  *)
(* walk to the mapped image (imgReads, fixups) and the image itself.       *)
(* An access outside its buffer is undefined behaviour: under env.fault it *)
(* ends the process (ret = "crash"), otherwise it reads the neighbouring   *)
(* memory or writes into it and the call goes on.                          *)
(***************************************************************************)
Acc(what, off, len) == [what |-> what, off |-> off, len |-> len]

R0 ==
  [ ret |-> "-1", stage |-> "", ImageBase |-> "NULL", ImageSize |-> 0,
    mapped |-> FALSE, unmapped |-> FALSE, fileFreed |-> FALSE,
    image |-> <<>>, reads |-> {}, hdrCopy |-> <<>>, copies |-> {},
    imgReads |-> {}, fixups |-> {}, unsupported |-> {},
    before |-> <<>>, again |-> "no", twice |-> <<>> ]

Crash(r) == [r EXCEPT !.ret = "crash", !.stage = "crash"]

\* one relocation entry: lines 262-279
ApplyEntry(c, r, blockOff, j) ==
  LET eoff  == Cap(blockOff + SizeofRelocBlock + 2 * j)
      size  == Len(r.image)
      raw   == RdMem(r.image, eoff, 2)
      word  == raw[1] + 256 * raw[2]
      Type  == word \div 4096
      Offset == word % 4096
      page  == Val(RdMem(r.image, blockOff, 4))
      fix   == Cap(page + Offset)
      r1    == [r EXCEPT !.imgReads = @ \cup {Acc("TypeOffset", eoff, 2)}]
      Fixup(len, delta) ==
        LET r2 == [r1 EXCEPT !.fixups = @ \cup {Acc(Type, fix, len)}]
        IN  IF fix + len > size /\ c.env.fault THEN Crash(r2)
            ELSE [r2 EXCEPT !.image =
                    Splice(@, fix, AddLE(RdMem(r.image, fix, len), delta))]
  IN  IF eoff + 2 > size /\ c.env.fault THEN Crash(r1)
      ELSE IF Type = RelAbsolute THEN r1
      ELSE IF Type = RelDir64 THEN Fixup(8, c.Delta)
      ELSE IF Type = RelHighLow THEN Fixup(4, Trunc(c.Delta, 4))
      ELSE [r1 EXCEPT !.unsupported = @ \cup {Type}]

RECURSIVE WalkEntries(_, _, _, _, _)
WalkEntries(c, r, blockOff, j, n) ==
  IF j >= n \/ r.ret = "crash" THEN r
  ELSE WalkEntries(c, ApplyEntry(c, r, blockOff, j), blockOff, j + 1, n)

\* the block loop: lines 253-283
RECURSIVE WalkBlocks(_, _, _, _)
WalkBlocks(c, r, blockOff, relocEnd) ==
  IF blockOff >= relocEnd THEN r
  ELSE
    LET size == Len(r.image)
        sob  == RdMem(r.image, Cap(blockOff + 4), 4)
        r1   == [r EXCEPT !.imgReads = @ \cup {Acc("RelocBlock", blockOff, SizeofRelocBlock)}]
    IN  IF blockOff + SizeofRelocBlock > size /\ c.env.fault THEN Crash(r1)
        ELSE IF IsZero(sob) THEN r1
        \* SizeOfBlock - 8 wraps (or is larger than all memory of the model):
        \* the entry loop runs off the mapping
        ELSE IF Val(sob) < SizeofRelocBlock \/ Val(sob) = Far THEN Crash(r1)
        ELSE LET n  == (Val(sob) - SizeofRelocBlock) \div 2
                 r2 == WalkEntries(c, r1, blockOff, 0, n)
                 \* SizeOfBlock is read again after the fixups (line 282)
                 step == Val(RdMem(r2.image, Cap(blockOff + 4), 4))
             IN  IF r2.ret = "crash" THEN r2
                 ELSE WalkBlocks(c, r2, Cap(blockOff + step), relocEnd)

\* the faulty variant takes entry 5 for present when there are 5 entries
RelocDirectoryPresentFrom5(nrva) == ~LtLE(nrva, U32(DirBaseReloc))

\* the data directories reach the base-relocation entry
RelocDirectoryPresent(nrva) == LtLE(U32(DirBaseReloc), nrva)

\* the relocation step: lines 229-289
PeRelocate(c, r) ==
  LET oh      == c.opt
      Oob(off, len) == off + len > c.FileSize
      nrvaOff == oh + OhNumberOfRvaAndSizes
      dirOff  == oh + SizeofOptHeader + DirBaseReloc * SizeofDataDir
      nrva    == RdMem(c.mem, nrvaOff, 4)
      dirVa   == RdMem(c.mem, dirOff, 4)
      dirSize == RdMem(c.mem, dirOff + 4, 4)
      r1 == [r EXCEPT !.reads = @ \cup {Acc("NumberOfRvaAndSizes", nrvaOff, 4)}]
      r2 == [r1 EXCEPT !.reads = @ \cup {Acc("RelocDir", dirOff, SizeofDataDir)}]
  IN  IF IsZero(c.Delta) THEN r
      ELSE IF Oob(nrvaOff, 4) /\ c.env.fault THEN Crash(r1)
      ELSE IF ~RelocDirectoryPresent(nrva) THEN r1
      ELSE IF Oob(dirOff, SizeofDataDir) /\ c.env.fault THEN Crash(r2)
      ELSE IF IsZero(dirVa) \/ IsZero(dirSize) THEN r2
      ELSE WalkBlocks(c, r2, Val(dirVa), Cap(Val(dirVa) + Val(dirSize)))

\* the faulty variant returns without munmap
SectionRejectedMapped(r, stage) ==
  [r EXCEPT !.stage = stage, !.fileFreed = TRUE]

\* a section is out of bounds: munmap, free, return -1 (lines 205-208, 212-215)
SectionRejected(r, stage) ==
  [r EXCEPT !.stage = stage, !.unmapped = TRUE, !.fileFreed = TRUE, !.image = <<>>]

\* the section loop: lines 191-224
RECURSIVE PeSections(_, _, _)
PeSections(c, r, i) ==
  IF i >= c.NumberOfSections THEN r
  ELSE
    LET so  == c.secs + i * SizeofSection
        hdr == RdMem(c.mem, so, SizeofSection)
        VirtualAddress   == SubSeq(hdr, ShVirtualAddress + 1, ShVirtualAddress + 4)
        SizeOfRawData    == SubSeq(hdr, ShSizeOfRawData + 1, ShSizeOfRawData + 4)
        PointerToRawData == SubSeq(hdr, ShPointerToRawData + 1, ShPointerToRawData + 4)
        size == Len(r.image)
        r0 == [r EXCEPT !.reads = @ \cup {Acc("Section", so, ShSizeOfRawData + 4)}]
        r1 == [r0 EXCEPT !.reads = @ \cup
                 {Acc("PointerToRawData", so + ShPointerToRawData, 4)}]
        \* 32-bit sums, converted to size_t for the comparison
        fileEnd == ZExt(AddLE(PointerToRawData, SizeOfRawData), 8)
        vaEnd   == AddLE(VirtualAddress, SizeOfRawData)
        src == Val(PointerToRawData)
        dst == Val(VirtualAddress)
        len == Val(SizeOfRawData)
        k   == IF dst >= size THEN 0 ELSE Min(len, size - dst)
        r2 == [r1 EXCEPT !.copies = @ \cup
                 {[sec |-> i, src |-> src, dst |-> dst, len |-> len]}]
    IN  IF so + ShSizeOfRawData + 4 > c.FileSize /\ c.env.fault THEN Crash(r0)
        ELSE IF IsZero(SizeOfRawData) THEN PeSections(c, r0, i + 1)
        ELSE IF so + ShPointerToRawData + 4 > c.FileSize /\ c.env.fault THEN Crash(r1)
        ELSE IF LtLE(LE(c.FileSize, 8), fileEnd)
             THEN SectionRejected(r1, "section data")
        ELSE IF LtLE(U32(size), vaEnd)
             THEN SectionRejected(r1, "section va")
        ELSE IF (src + len > c.FileSize \/ dst + len > size) /\ c.env.fault
             THEN Crash(r2)
        ELSE PeSections(c, [r2 EXCEPT !.image = Splice(@, dst, RdMem(c.mem, src, k))],
                        i + 1)

\* what the relocation and section code work with: the file buffer, the
\* header positions and Delta (line 237)
Context(f, env, mem, pe) ==
  LET fh  == pe + SizeofSignature
      opt == fh + SizeofFileHeader
  IN  [ mem |-> mem, FileSize |-> f.fileSize, env |-> env, opt |-> opt,
        secs |-> opt + Val(RdMem(mem, fh + FhSizeOfOptionalHeader, 2)),
        NumberOfSections |-> Val(RdMem(mem, fh + FhNumberOfSections, 2)),
        Delta |-> SubLE(env.loadAddr, RdMem(mem, opt + OhImageBase, 8)) ]

\* mmap, header copy, sections, relocation, return: lines 146-298
PeMap(f, env, mem, pe, rd) ==
  LET FileSize == f.fileSize
      fh  == pe + SizeofSignature
      opt == fh + SizeofFileHeader
      Oob(off, len) == off + len > FileSize
      SizeOfImage   == RdMem(mem, opt + OhSizeOfImage, 4)
      SizeOfHeaders == RdMem(mem, opt + OhSizeOfHeaders, 4)
      NumberOfSections     == Val(RdMem(mem, fh + FhNumberOfSections, 2))
      SizeOfOptionalHeader == Val(RdMem(mem, fh + FhSizeOfOptionalHeader, 2))
      ImageBase == RdMem(mem, opt + OhImageBase, 8)
      accs == { Acc("SizeOfImage", opt + OhSizeOfImage, 4),
                Acc("SizeOfHeaders", opt + OhSizeOfHeaders, 4),
                Acc("NumberOfSections", fh + FhNumberOfSections, 2),
                Acc("SizeOfOptionalHeader", fh + FhSizeOfOptionalHeader, 2),
                Acc("ImageBase", opt + OhImageBase, 8) }
      r1 == [R0 EXCEPT !.reads = rd \cup accs]
      size == Val(SizeOfImage)
      hlen == Val(SizeOfHeaders)
      c == Context(f, env, mem, pe)
      \* the region is zeroed, then SizeOfHeaders bytes are copied (lines 179-184)
      r2 == [r1 EXCEPT !.mapped = TRUE, !.hdrCopy = <<hlen>>,
                       !.image = Splice(Zeros(size), 0, RdMem(mem, 0, Min(hlen, size)))]
      r3 == PeSections(c, r2, 0)
      \* before: the image as the relocation step finds it
      r4 == PeRelocate(c, [r3 EXCEPT !.before = r3.image])
  IN  IF (\E a \in accs : Oob(a.off, a.len)) /\ env.fault THEN Crash(r1)
      \* mmap fails for a length of 0, when the host refuses, and for a length
      \* of Far or more (the memory of the model is smaller)
      ELSE IF size = 0 \/ size = Far \/ ~env.mmapOk
           THEN [r1 EXCEPT !.stage = "mmap", !.fileFreed = TRUE]
      ELSE IF (hlen > FileSize \/ hlen > size) /\ env.fault THEN Crash(r2)
      ELSE IF r3.ret = "crash" \/ r3.stage # "" THEN r3
      ELSE IF r4.ret = "crash" THEN r4
      ELSE [r4 EXCEPT !.ret = "0", !.stage = "loaded", !.fileFreed = TRUE,
                      !.ImageBase = "LoadedImage", !.ImageSize = size]

\* the optional-header magic test, line 140 (the faulty variant accepts any magic)
IsPe32PlusAny(magic) == TRUE

IsPe32Plus(magic) == magic = LE(Hdr64Magic, 2)

\* argument checks, file read and header checks: lines 62-144
PeCoffLoadImage(f, env) ==
  LET mem == Build(f)
      FileSize == f.fileSize
      Reject(stage, rd, freed) ==
        [R0 EXCEPT !.stage = stage, !.reads = rd, !.fileFreed = freed]
      DosSignature == RdMem(mem, 0, 2)
      PeOffset     == RdMem(mem, OffLfanew, 4)
      pe  == Val(PeOffset)
      opt == pe + SizeofSignature + SizeofFileHeader
      rd1 == {Acc("DosSignature", 0, 2)}
      rd2 == rd1 \cup {Acc("PeOffset", OffLfanew, 4)}
      rd3 == rd2 \cup {Acc("PeSignature", pe, 4)}
      rd4 == rd3 \cup {Acc("Magic", opt, 2)}
  IN  IF env.io = "null argument"
      THEN [Reject("arguments", {}, FALSE) EXCEPT !.ImageBase = "unwritten"]
      ELSE IF env.io = "fopen fails" THEN Reject("fopen", {}, FALSE)
      ELSE IF env.io = "malloc fails" THEN Reject("malloc", {}, FALSE)
      ELSE IF env.io = "fread fails" THEN Reject("fread", {}, TRUE)
      ELSE IF FileSize < MinFileSize THEN Reject("file size", {}, TRUE)
      ELSE IF DosSignature # LE(DosMagic, 2) THEN Reject("dos signature", rd1, TRUE)
      \* PeOffset + sizeof (uint32_t) + sizeof (PE_COFF_FILE_HEADER) in size_t
      ELSE IF LtLE(LE(FileSize, 8),
                   AddLE(ZExt(PeOffset, 8), LE(SizeofSignature + SizeofFileHeader, 8)))
           THEN Reject("pe offset", rd2, TRUE)
      ELSE IF RdMem(mem, pe, 4) # LE(PeSignature, 4) THEN Reject("pe signature", rd3, TRUE)
      ELSE IF opt + 2 > FileSize /\ env.fault THEN Crash(Reject("", rd4, FALSE))
      ELSE IF ~IsPe32Plus(RdMem(mem, opt, 2)) THEN Reject("magic", rd4, TRUE)
      ELSE PeMap(f, env, mem, pe, rd4)

(***************************************************************************)
(* The inputs of the loader model                                          *)
(***************************************************************************)
\* section 0 as the file declares it: sound, empty, and out of bounds in
\* the file or in the image, plainly or through a sum that wraps
SecVariants ==
  { [va |-> U32(ImgData), raw |-> U32(DataLen), ptr |-> U32(TplData)],
    [va |-> Neg32(8), raw |-> U32(0), ptr |-> Neg32(8)],
    [va |-> U32(ImgData), raw |-> U32(DataLen), ptr |-> U32(MemLen - 8)],
    [va |-> U32(ImgData), raw |-> U32(DataLen), ptr |-> Neg32(8)],
    [va |-> U32(ImgSize - 8), raw |-> U32(DataLen), ptr |-> U32(TplData)],
    [va |-> Neg32(8), raw |-> U32(DataLen), ptr |-> U32(TplData)],
    [va |-> U32(ImgData), raw |-> Neg32(8), ptr |-> U32(DataLen)] }

EntryKinds ==
  { [type |-> RelAbsolute, off |-> 0], [type |-> RelHighLow, off |-> 0],
    [type |-> RelDir64, off |-> 8], [type |-> RelHigh, off |-> 4] }

EntrySeqs == UNION { [1..n -> EntryKinds] : n \in 0..MaxEntries }

HdrFiles ==
  { [Base EXCEPT !.fileSize = fs, !.dosSig = d, !.peOff = p, !.peSig = s, !.magic = m] :
      fs \in {MinFileSize - 1, MinFileSize, TplOpt, TplOpt + 2, TplSecs, TplHdrEnd, MemLen},
      d \in {DosMagic, DosMagic + 13},
      p \in {U32(TplPe), U32(0), Neg32(16)},
      s \in {PeSignature, PeSignature + 1},
      m \in {Hdr64Magic, Hdr32Magic} }

MapFiles ==
  { [Base EXCEPT !.sizeOfImage = si, !.sizeOfHeaders = sh, !.nSections = n,
                 !.optSize = os, !.sec = sv] :
      si \in {U32(0), U32(TplHdrEnd - 8), U32(ImgSize), Neg32(16)},
      sh \in {U32(TplHdrEnd), U32(MemLen + 8), U32(ImgSize + 8)},
      n \in 0..MaxSections,
      os \in {TplOptSize, TplOptSize + MemLen},
      sv \in SecVariants }

RelocFiles ==
  { [Base EXCEPT !.imageBase = ib, !.nRva = nr, !.relocVa = rd[1], !.relocSize = rd[2],
                 !.blockPage = bp, !.blockSize = be[1], !.entries = be[2]] :
      ib \in {LoadAddr, PrefLow, PrefHigh, PrefSameLow},
      nr \in {0, DirBaseReloc, DirBaseReloc + 1},
      rd \in { <<U32(0), U32(RelocLen)>>, <<U32(ImgReloc), U32(0)>>,
               <<U32(ImgReloc), U32(RelocLen)>>, <<U32(ImgSize + 8), U32(RelocLen)>> },
      bp \in {U32(ImgData), U32(ImgSize - 12), Neg32(4096)},
      be \in { <<U32(SizeofRelocBlock + 2 * Len(es)), es>> : es \in EntrySeqs }
             \cup { <<U32(0), <<>> >>, <<U32(SizeofRelocBlock - 4), <<>> >> } }

\* images loaded where they prefer, without a relocation directory:
\* section 0 sound, empty, laid over the end of the headers, laid over the
\* start of section 1, or taken from the header bytes of the file
PlainSecs ==
  { [va |-> U32(ImgData), raw |-> U32(DataLen), ptr |-> U32(TplData)],
    [va |-> U32(ImgData), raw |-> U32(0), ptr |-> U32(0)],
    [va |-> U32(TplHdrEnd - 8), raw |-> U32(DataLen), ptr |-> U32(TplData)],
    [va |-> U32(ImgReloc - 8), raw |-> U32(DataLen), ptr |-> U32(TplData)],
    [va |-> U32(ImgData), raw |-> U32(DataLen), ptr |-> U32(0)] }

PlainFiles ==
  { [Base EXCEPT !.nRva = rd[1], !.relocVa = rd[2], !.relocSize = rd[3],
                 !.sizeOfHeaders = sh, !.nSections = n, !.sec = sv] :
      rd \in { <<0, U32(ImgReloc), U32(RelocLen)>>,
               <<DirBaseReloc + 1, U32(0), U32(0)>>,
               <<DirBaseReloc + 1, U32(ImgReloc), U32(0)>> },
      sh \in {U32(0), U32(TplSecs), U32(TplHdrEnd)},
      n \in 0..MaxSections,
      sv \in PlainSecs }

Env(io, mmapOk, fault) ==
  [io |-> io, mmapOk |-> mmapOk, fault |-> fault, loadAddr |-> LoadAddr]

PeInputs ==
  { [f |-> Base, env |-> Env(io, TRUE, FALSE)] :
      io \in {"null argument", "fopen fails", "malloc fails", "fread fails"} }
  \cup { [f |-> f, env |-> Env("ok", TRUE, fault)] :
           f \in HdrFiles \cup MapFiles \cup RelocFiles \cup PlainFiles,
           fault \in BOOLEAN }
  \cup { [f |-> f, env |-> Env("ok", FALSE, FALSE)] : f \in MapFiles }

NotCalled == [R0 EXCEPT !.ret = "none", !.stage = "not called", !.ImageBase = "unwritten"]

\* no entry function has been called yet
NoCall ==
  [fn |-> "none", Depends |-> "NULL", Crypto |-> "NULL", slot |-> "NULL", alloc |-> 0,
   CryptoSize |-> "NULL", sizeIn |-> 0, init |-> "not called", depsIn |-> "NULL",
   Status |-> "none", size |-> 0, slotOut |-> "NULL", written |-> 0,
   Major |-> "unset", Minor |-> "unset"]

\* what a caller keeps of a call: which form it was, its status, the size
Kept(c) == [Crypto |-> c.Crypto, CryptoSize |-> c.CryptoSize, Status |-> c.Status, size |-> c.size]

EntryIdle == mCryptoDependencies = "NULL" /\ call = NoCall /\ prev = Kept(NoCall)

\* no size query has been made
NoQuery == [Status |-> "none", size |-> 0]

\* no loader function has run
NoRun ==
  [fn |-> "none", Status |-> "none", query |-> NoQuery, populate |-> "none",
   depsAlloc |-> "NULL", capAlloc |-> "NULL", frees |-> <<>>, install |-> FALSE,
   protocolIn |-> "NULL", dependsIn |-> "NULL", invocation |-> 0, depsAllocs |-> 0,
   descriptor |-> "none", staleIn |-> FALSE]

LoaderIdle ==
  /\ mOneCryptoDepends = "NULL" /\ mOneCryptoProtocol = "NULL"
  /\ heap = [live |-> {}, freed |-> {}]
  /\ installed = "NULL"
  /\ run = NoRun

\* no CRT wrapper has been called
NoCrt == [fn |-> "none", depsIn |-> "NULL", getTime |-> "NULL", Status |-> "none", invoked |-> FALSE]

\* PeCoffFindExport has nothing to search
NoFind ==
  [in |-> [ImageBase |-> "NULL", NamePtr |-> "NULL", Name |-> <<>>, nRva |-> 0,
           exportVa |-> 0, names |-> <<>>, nNames |-> 0, ordinals |-> <<>>,
           fault |-> FALSE],
   ret |-> "not called", first |-> "not called", calls |-> 0]

\* the harness statics as the C initialisers leave them (lines 36-43)
FuzzIdle ==
  [mInitialized |-> 0, mFuzzProtocol |-> "NULL", mLoadedImage |-> "NULL",
   live |-> {}, freed |-> {}, fn |-> "none", ret |-> "none", msg |-> "",
   got |-> "none", ready |-> FALSE]

\* no invocation has entered a guard
NoRace ==
  [guard |-> "none", flag |-> "NULL", resource |-> "NULL",
   pc |-> <<"idle", "idle">>, mine |-> <<"NULL", "NULL">>, calls |-> <<0, 0>>,
   allocs |-> 0, inits |-> 0, overlapped |-> FALSE]

\* mCachedRngProtocol as its initialiser leaves it; no call yet
NoRng ==
  [loader |-> "none", mCachedRngProtocol |-> "NULL", calls |-> 0, lookups |-> 0,
   Rand |-> "NULL", locate |-> "none", getRng |-> "none", ret |-> "none"]

\* DiscoverCryptoBinary has no HOB list to walk
NoHob ==
  [volumes |-> <<>>, hobList |-> FALSE, garbage |-> "EFI_SUCCESS",
   Status |-> "not called", SectionData |-> "unwritten"]

PlatformIdle == rng = NoRng /\ hob = NoHob

HarnessIdle == find = NoFind /\ fuzz = FuzzIdle /\ race = NoRace

PeIdle == peIn = [f |-> Base, env |-> Env("ok", TRUE, FALSE)] /\ peOut = NotCalled

(***************************************************************************)
(* The loader specification: an input is drawn, PeCoffLoadImage runs once. *)
(***************************************************************************)
InitPe ==
  /\ peIn \in PeInputs
  /\ peOut = NotCalled
  /\ EntryIdle
  /\ loader = "none" /\ LoaderIdle
  /\ crt = NoCrt /\ HarnessIdle /\ PlatformIdle

PeLoad ==
  /\ peOut.stage = "not called"
  /\ peOut' = PeCoffLoadImage(peIn.f, peIn.env)
  /\ UNCHANGED peIn
  /\ UNCHANGED <<entryVars, loaderVars, crt, harnessVars, platformVars>>

\* the relocation step (lines 229-289) applied once more, with the same
\* delta, to the image a successful load returned
PeRelocateAgain ==
  /\ peOut.stage = "loaded" /\ peOut.again = "no"
  /\ LET mem == Build(peIn.f)
         c   == Context(peIn.f, peIn.env, mem, Val(RdMem(mem, OffLfanew, 4)))
         r   == PeRelocate(c, [R0 EXCEPT !.image = peOut.image])
     IN  peOut' = [peOut EXCEPT !.again = IF r.ret = "crash" THEN "crash" ELSE "done",
                                !.twice = r.image]
  /\ UNCHANGED peIn
  /\ UNCHANGED <<entryVars, loaderVars, crt, harnessVars, platformVars>>

NextPe == PeLoad \/ PeRelocateAgain

SpecPe == InitPe /\ [][NextPe]_vars

(***************************************************************************)
(* Claims about PeCoffLoadImage                                            *)
(***************************************************************************)
PeCalled == peOut.stage # "not called"

\* a + b > n for two 32-bit fields, summed without wrapping
TrueSumExceeds(a, b, n) == LtLE(LE(n, 8), AddLE(ZExt(a, 8), ZExt(b, 8)))

\* the loop reached the header of section 0 where the input file holds it
Section0Processed == \E a \in peOut.reads : a.what = "Section" /\ a.off = TplSecs

Section0OutOfBounds ==
  /\ ~IsZero(peIn.f.sec.raw)
  /\ \/ TrueSumExceeds(peIn.f.sec.ptr, peIn.f.sec.raw, peIn.f.fileSize)
     \/ TrueSumExceeds(peIn.f.sec.va, peIn.f.sec.raw, Val(peIn.f.sizeOfImage))

\* C1: a section with SizeOfRawData > 0 whose true sum PointerToRawData +
\* SizeOfRawData exceeds FileSize, or whose true sum VirtualAddress +
\* SizeOfRawData exceeds SizeOfImage (also when the 32-bit sum wraps), makes
\* PeCoffLoadImage return -1 without performing the copy of that section.
C1_OutOfBoundsSectionRejected ==
  (PeCalled /\ Section0Processed /\ Section0OutOfBounds)
    => /\ peOut.ret = "-1"
       /\ ~\E c \in peOut.copies : c.sec = 0

\* C2: every fixup write of the relocation walk (4 bytes for HIGHLOW, 8 for
\* DIR64) lies entirely inside [0, SizeOfImage) of the mapped image.
C2_FixupsInsideImage ==
  \A x \in peOut.fixups : x.off + x.len <= Len(peOut.image)

\* C3: every read PeCoffLoadImage performs on the raw file buffer while
\* parsing is at offsets inside [0, FileSize).
C3_ParseReadsInsideFile ==
  \A a \in peOut.reads : a.off + a.len <= peIn.f.fileSize

\* the header checks, stated on the bytes of the file alone
FailsHeaderCheck(f) ==
  LET file == SubSeq(Build(f), 1, f.fileSize)
      pe   == Val(f.peOff)
  IN  \/ f.fileSize < 64
      \/ SubSeq(file, 1, 2) # <<77, 90>>
      \/ TrueSumExceeds(f.peOff, U32(24), f.fileSize)
      \/ SubSeq(file, pe + 1, pe + 4) # <<80, 69, 0, 0>>
      \/ /\ pe + 26 <= f.fileSize
         /\ SubSeq(file, pe + 25, pe + 26) # <<11, 2>>

\* C4: an input that fails a header check (FileSize < 64, DOS signature other
\* than "MZ", PE offset + 4 + sizeof(file header) > FileSize, PE signature
\* other than "PE\0\0", optional-header magic other than 0x20b) makes
\* PeCoffLoadImage return -1 without allocating the image region, with
\* *ImageBase NULL and *ImageSize 0.
C4_HeaderFailureRejectedBeforeMapping ==
  (PeCalled /\ peIn.env.io = "ok" /\ FailsHeaderCheck(peIn.f))
    => /\ peOut.ret = "-1"
       /\ ~peOut.mapped
       /\ peOut.image = <<>>
       /\ peOut.hdrCopy = <<>> /\ peOut.copies = {} /\ peOut.fixups = {}
       /\ peOut.ImageBase = "NULL"
       /\ peOut.ImageSize = 0

\* a PE32 (0x10b) image, sound in everything else, was handed in and rejected
C4_Witness ==
  /\ PeCalled
  /\ peIn.f = [Base EXCEPT !.magic = Hdr32Magic]
  /\ peIn.env.mmapOk
  /\ peOut.stage = "magic"
  /\ peOut.ret = "-1"

\* the section table as the file declares it (section 1 is the relocation
\* section, further sections are empty)
DeclaredSection(f, i) ==
  IF i = 0 THEN [va |-> Val(f.sec.va), raw |-> Val(f.sec.raw), ptr |-> Val(f.sec.ptr)]
  ELSE IF i = 1 THEN [va |-> ImgReloc, raw |-> RelocLen, ptr |-> TplReloc]
  ELSE [va |-> 0, raw |-> 0, ptr |-> 0]

\* the file declares no base-relocation directory
NoRelocDirectory(f) ==
  f.nRva <= 5 \/ IsZero(f.relocVa) \/ IsZero(f.relocSize)

\* a complete PE32+ file whose headers and sections lie inside the file and
\* inside the image
WellFormed(f) ==
  /\ ~FailsHeaderCheck(f)
  /\ f.fileSize = MemLen /\ f.peOff = U32(TplPe) /\ f.optSize = TplOptSize
  /\ Val(f.sizeOfImage) > 0 /\ Val(f.sizeOfImage) < Far
  /\ Val(f.sizeOfHeaders) <= f.fileSize
  /\ Val(f.sizeOfHeaders) <= Val(f.sizeOfImage)
  /\ \A i \in 0..(f.nSections - 1) :
       LET d == DeclaredSection(f, i)
       IN  d.raw = 0 \/ (d.ptr + d.raw <= f.fileSize /\ d.va + d.raw <= Val(f.sizeOfImage))

\* the image a direct copy gives: zero, the headers over it, the sections
\* over that in table order (byte i of the image is byte i - 1 from its base)
DirectCopy(f) ==
  LET file == Build(f)
      Covers(k, i) ==
        LET d == DeclaredSection(f, k) IN d.va < i /\ i <= d.va + d.raw
      Last(i) == CHOOSE k \in 0..(f.nSections - 1) :
                   /\ Covers(k, i)
                   /\ \A j \in (k + 1)..(f.nSections - 1) : ~Covers(j, i)
  IN  [i \in 1..Val(f.sizeOfImage) |->
         IF \E k \in 0..(f.nSections - 1) : Covers(k, i)
         THEN LET d == DeclaredSection(f, Last(i)) IN file[d.ptr + i - d.va]
         ELSE IF i <= Val(f.sizeOfHeaders) THEN file[i]
         ELSE 0]

PlainCase ==
  /\ PeCalled
  /\ peIn.env.io = "ok" /\ peIn.env.mmapOk
  /\ WellFormed(peIn.f)
  /\ NoRelocDirectory(peIn.f)
  /\ peIn.f.imageBase = peIn.env.loadAddr

\* C14: for a well-formed PE32+ input with no relocation directory and load
\* delta zero, the image PeCoffLoadImage produces is a zero-filled buffer of
\* SizeOfImage bytes with the first SizeOfHeaders file bytes at offset 0 and
\* then, in table order, each section's SizeOfRawData file bytes from
\* PointerToRawData at VirtualAddress; no other byte differs from zero.
C14_MappingIsDirectCopy ==
  PlainCase
    => /\ peOut.ret = "0"
       /\ peOut.ImageSize = Val(peIn.f.sizeOfImage)
       /\ peOut.image = DirectCopy(peIn.f)

\* an image whose section 0 lies over the start of section 1 was loaded
C14_Witness ==
  /\ PlainCase
  /\ peIn.f.nSections = 2
  /\ peIn.f.sec.va = U32(ImgReloc - 8) /\ peIn.f.sec.raw = U32(DataLen)
  /\ peIn.f.sizeOfHeaders = U32(TplHdrEnd)
  /\ peOut.stage = "loaded"

\* Delta of line 237 for the load at hand
ImageDelta == SubLE(peIn.env.loadAddr, peIn.f.imageBase)

\* the relocation step walked at least one block with a non-zero delta
RelocRan ==
  /\ PeCalled /\ peOut.stage = "loaded" /\ ~IsZero(ImageDelta)
  /\ \E a \in peOut.imgReads : a.what = "RelocBlock"

\* the block is the one the file declares, complete inside the directory, and
\* every fixup lies inside the image and outside the relocation data
SoundBlock ==
  /\ RelocRan
  /\ Val(peIn.f.relocVa) + Val(peIn.f.relocSize) <= Len(peOut.image)
  /\ Val(peIn.f.blockSize) = SizeofRelocBlock + 2 * Len(peIn.f.entries)
  /\ Val(peIn.f.blockSize) <= Val(peIn.f.relocSize)
  /\ \A x \in peOut.fixups :
       /\ x.off + 8 <= Len(peOut.image)
       /\ \/ x.off + 8 <= Val(peIn.f.relocVa)
          \/ Val(peIn.f.relocVa) + Val(peIn.f.relocSize) <= x.off

Fixing(e) == e.type \in {RelDir64, RelHighLow}
Target(e) == Val(peIn.f.blockPage) + e.off
FieldWidth(e) == IF e.type = RelDir64 THEN 8 ELSE 4
\* the delta an entry adds: all of Delta, or its low 32 bits
EntryDelta(e) == SubSeq(ImageDelta, 1, FieldWidth(e))
Field(img, e) == SubSeq(img, Target(e) + 1, Target(e) + FieldWidth(e))
\* the four bytes after a 32-bit field
After(img, e) == SubSeq(img, Target(e) + 5, Target(e) + 8)

\* no other entry of the block touches the eight bytes at this entry's target
Alone(e) ==
  /\ Cardinality({j \in DOMAIN peIn.f.entries : peIn.f.entries[j] = e}) = 1
  /\ \A j \in DOMAIN peIn.f.entries :
       LET d == peIn.f.entries[j]
       IN  (Fixing(d) /\ d # e) =>
             (Target(d) + 8 <= Target(e) \/ Target(e) + 8 <= Target(d))

AppliedTwice == SoundBlock /\ peOut.again = "done"

SizeofOneCryptoProtocol == 4

EFI_ERROR(Status) == Status # "EFI_SUCCESS"

\* OneCryptoCrtSetup, OneCryptoCrtLib.c 36-48 (the faulty variant stores whatever it
\* is given)
OneCryptoCrtSetupUnchecked(Depends, deps) ==
  [Status |-> "EFI_SUCCESS", deps |-> Depends]

OneCryptoCrtSetup(Depends, deps) ==
  IF Depends = "NULL"
  THEN [Status |-> "EFI_INVALID_PARAMETER", deps |-> deps]
  ELSE [Status |-> "EFI_SUCCESS", deps |-> Depends]

\* CryptoInit, OneCryptoBin.c 39-340: version first, then every member (the
\* faulty variant leaves the version out)
CryptoInitNoVersion(r) == r

CryptoInit(r) ==
  [r EXCEPT !.Major = "ONE_CRYPTO_VERSION_MAJOR", !.Minor = "ONE_CRYPTO_VERSION_MINOR"]

\* lines 378-380: the size is stored whenever CryptoSize is not NULL (the
\* faulty variant stores it on the populate call only)
StoreSizeOnPopulate(a) ==
  IF a.CryptoSize # "NULL" /\ a.Crypto # "NULL" THEN SizeofOneCryptoProtocol ELSE a.sizeIn

StoreSize(a) ==
  IF a.CryptoSize # "NULL" THEN SizeofOneCryptoProtocol ELSE a.sizeIn

\* the outcome of a call that has done nothing yet
Untouched(a, deps) ==
  [Status |-> "none", size |-> a.sizeIn, slotOut |-> a.slot, written |-> 0,
   Major |-> "unset", Minor |-> "unset", deps |-> deps]

\* NoSetupCryptoEntry, OneCryptoBin.c 365-415.  a: the arguments and what
\* they point at; deps: mCryptoDependencies; fault: whether a write past the
\* end of the caller's buffer traps.
NoSetupCryptoEntry(a, deps, fault) ==
  LET r0 == [Untouched(a, deps) EXCEPT !.size = StoreSize(a)]
  IN  IF a.Crypto = "NULL" THEN [r0 EXCEPT !.Status = "EFI_BUFFER_TOO_SMALL"]
      ELSE LET s  == OneCryptoCrtSetup(a.Depends, deps)
               r1 == [r0 EXCEPT !.deps = s.deps]
           IN  IF EFI_ERROR(s.Status) THEN [r1 EXCEPT !.Status = s.Status]
               ELSE IF a.slot = "NULL" THEN [r1 EXCEPT !.Status = "EFI_INVALID_PARAMETER"]
               ELSE IF a.alloc < SizeofOneCryptoProtocol /\ fault
                    THEN [r1 EXCEPT !.Status = "crash"]
               ELSE CryptoInit([r1 EXCEPT !.written = SizeofOneCryptoProtocol,
                                          !.Status = "EFI_SUCCESS"])

\* CryptoEntry, OneCryptoBin.c 455-478.  init: what BaseCryptInit returns.
CryptoEntry(a, deps, fault, init) ==
  IF EFI_ERROR(init) THEN [Untouched(a, deps) EXCEPT !.Status = init]
  ELSE NoSetupCryptoEntry(a, deps, fault)

\* the dependency tables a caller may pass
DependsValues == {"NULL", "d1", "d2"}

\* what BaseCryptInit (OpensslLibConstructor) may return
InitOutcomes == {"EFI_SUCCESS", "EFI_OUT_OF_RESOURCES", "EFI_DEVICE_ERROR"}

\* the argument triples of an entry call: Crypto is NULL, or points at a
\* slot holding NULL or a buffer of alloc bytes; CryptoSize is NULL or
\* points at a UINT32 holding sizeIn
EntryArgs ==
  { [Depends |-> d, Crypto |-> c.Crypto, slot |-> c.slot, alloc |-> c.alloc,
     CryptoSize |-> z.CryptoSize, sizeIn |-> z.sizeIn] :
      d \in DependsValues,
      c \in { [Crypto |-> "NULL", slot |-> "NULL", alloc |-> 0],
              [Crypto |-> "ptr", slot |-> "NULL", alloc |-> 0] }
            \cup { [Crypto |-> "ptr", slot |-> "buf", alloc |-> n] :
                     n \in (SizeofOneCryptoProtocol - 1)..SizeofOneCryptoProtocol },
      z \in { [CryptoSize |-> "NULL", sizeIn |-> 0] }
            \cup { [CryptoSize |-> "ptr", sizeIn |-> n] :
                     n \in (SizeofOneCryptoProtocol - 1)..SizeofOneCryptoProtocol } }

\* the record of a call: its arguments and its outcome
CallRecord(fn, a, init, deps, r) ==
  [fn |-> fn, Depends |-> a.Depends, Crypto |-> a.Crypto, slot |-> a.slot, alloc |-> a.alloc,
   CryptoSize |-> a.CryptoSize, sizeIn |-> a.sizeIn, init |-> init, depsIn |-> deps,
   Status |-> r.Status, size |-> r.size, slotOut |-> r.slotOut, written |-> r.written,
   Major |-> r.Major, Minor |-> r.Minor]

Alive == call.Status # "crash"

InitEntry ==
  /\ PeIdle /\ EntryIdle /\ loader = "none" /\ LoaderIdle
  /\ crt = NoCrt /\ HarnessIdle /\ PlatformIdle

CallCryptoEntry ==
  /\ Alive /\ crt = NoCrt
  /\ \E a \in EntryArgs, init \in InitOutcomes, fault \in BOOLEAN :
       LET r == CryptoEntry(a, mCryptoDependencies, fault, init)
       IN  /\ call' = CallRecord("CryptoEntry", a, init, mCryptoDependencies, r)
           /\ mCryptoDependencies' = r.deps
  /\ prev' = Kept(call)
  /\ UNCHANGED <<peVars, loaderVars, crt, harnessVars, platformVars>>

CallNoSetupCryptoEntry ==
  /\ Alive /\ crt = NoCrt
  /\ \E a \in EntryArgs, fault \in BOOLEAN :
       LET r == NoSetupCryptoEntry(a, mCryptoDependencies, fault)
       IN  /\ call' = CallRecord("NoSetupCryptoEntry", a, "not called", mCryptoDependencies, r)
           /\ mCryptoDependencies' = r.deps
  /\ prev' = Kept(call)
  /\ UNCHANGED <<peVars, loaderVars, crt, harnessVars, platformVars>>

\* OneCryptoGetTime: OneCryptoCrtLib.c lines 134-146.  getTime is the GetTime
\* member of the table: "NULL", or the status the platform function returns
OneCryptoGetTime(deps, getTime) ==
  IF deps = "NULL" \/ getTime = "NULL"
  THEN [Status |-> "EFI_UNSUPPORTED", invoked |-> FALSE]
  ELSE [Status |-> getTime, invoked |-> TRUE]

\* what the GetTime member of a dependency table may hold
GetTimeValues == {"NULL", "EFI_SUCCESS", "EFI_DEVICE_ERROR"}

\* the wrapper changes nothing an entry function reads: the model looks at
\* its call after the entry calls
CallOneCryptoGetTime ==
  /\ Alive
  /\ \E g \in GetTimeValues :
       LET r == OneCryptoGetTime(mCryptoDependencies, g)
       IN  crt' = [fn |-> "OneCryptoGetTime", depsIn |-> mCryptoDependencies,
                   getTime |-> IF mCryptoDependencies = "NULL" THEN "NULL" ELSE g,
                   Status |-> r.Status, invoked |-> r.invoked]
  /\ UNCHANGED <<peVars, entryVars, loaderVars, harnessVars, platformVars>>

NextEntry == CallCryptoEntry \/ CallNoSetupCryptoEntry \/ CallOneCryptoGetTime

SpecEntry == InitEntry /\ [][NextEntry]_vars

(***************************************************************************)
(* Claims about the entry functions                                        *)
(***************************************************************************)
EntryCalled == call.fn # "none"

SizeQuery(c) == c.Crypto = "NULL"

Populate(c) == c.Crypto # "NULL"

\* BaseCryptInit did not fail in this call (NoSetupCryptoEntry never runs it)
SetupDone(c) == c.fn = "NoSetupCryptoEntry" \/ c.init = "EFI_SUCCESS"

\* C5 (as stated): every entry call with Crypto == NULL and CryptoSize !=
\* NULL returns EFI_BUFFER_TOO_SMALL with *CryptoSize ==
\* sizeof(ONE_CRYPTO_PROTOCOL), whatever Depends and whatever BaseCryptInit
\* returned.
C5_SizeQueryAlwaysBufferTooSmall ==
  (EntryCalled /\ SizeQuery(call) /\ call.CryptoSize # "NULL")
    => /\ call.Status = "EFI_BUFFER_TOO_SMALL"
       /\ call.size = SizeofOneCryptoProtocol

\* C5 (amended): a size query (Crypto == NULL, CryptoSize != NULL) returns
\* EFI_BUFFER_TOO_SMALL with *CryptoSize == sizeof(ONE_CRYPTO_PROTOCOL),
\* whatever Depends, from NoSetupCryptoEntry always and from CryptoEntry
\* when BaseCryptInit succeeded; when BaseCryptInit failed, CryptoEntry
\* returns that error and leaves *CryptoSize as it was.
C5_SizeQueryAfterSetup ==
  (EntryCalled /\ SizeQuery(call) /\ call.CryptoSize # "NULL")
    => IF SetupDone(call)
       THEN /\ call.Status = "EFI_BUFFER_TOO_SMALL"
            /\ call.size = SizeofOneCryptoProtocol
       ELSE /\ call.Status = call.init
            /\ call.size = call.sizeIn

\* a size query through CryptoEntry with a NULL dependency table and an
\* understated size was answered
C5_Witness ==
  /\ call.fn = "CryptoEntry"
  /\ call.init = "EFI_SUCCESS"
  /\ SizeQuery(call) /\ call.CryptoSize # "NULL"
  /\ call.Depends = "NULL"
  /\ call.sizeIn # SizeofOneCryptoProtocol
  /\ call.Status = "EFI_BUFFER_TOO_SMALL"

\* C6: a populate call whose declared *CryptoSize is smaller than
\* sizeof(ONE_CRYPTO_PROTOCOL) is rejected with a non-success status, and
\* no byte beyond the declared size is written into the caller's buffer.
C6_UndersizedPopulateRejected ==
  (EntryCalled /\ Populate(call) /\ call.slot # "NULL" /\ call.CryptoSize # "NULL"
     /\ call.sizeIn < SizeofOneCryptoProtocol)
    => /\ call.Status \notin {"EFI_SUCCESS", "crash"}
       /\ call.written <= call.sizeIn

\* C9: with a non-NULL dependency table and successful setup, a size query
\* followed by a populate call with a buffer of exactly the returned size
\* yields EFI_SUCCESS; *Crypto is still the caller's non-NULL buffer,
\* *CryptoSize is the size of the first call, Major and Minor are set, and
\* the buffer is filled to its end and not beyond.
C9_RoundTrip ==
  (/\ EntryCalled
   /\ SizeQuery(prev) /\ prev.CryptoSize # "NULL" /\ prev.Status = "EFI_BUFFER_TOO_SMALL"
   /\ Populate(call) /\ call.slot = "buf" /\ call.alloc = prev.size
   /\ call.CryptoSize # "NULL"
   /\ call.Depends # "NULL" /\ SetupDone(call))
    => /\ call.Status = "EFI_SUCCESS"
       /\ call.slotOut = "buf"
       /\ call.size = prev.size
       /\ call.written = call.alloc
       /\ call.Major = "ONE_CRYPTO_VERSION_MAJOR"
       /\ call.Minor = "ONE_CRYPTO_VERSION_MINOR"
       /\ mCryptoDependencies = call.Depends

\* a size query was followed by a populate call with a buffer of the
\* returned size, and that call succeeded
C9_Witness ==
  /\ SizeQuery(prev) /\ prev.CryptoSize # "NULL" /\ prev.Status = "EFI_BUFFER_TOO_SMALL"
  /\ call.fn = "CryptoEntry"
  /\ Populate(call) /\ call.slot = "buf" /\ call.alloc = prev.size
  /\ call.CryptoSize # "NULL" /\ call.sizeIn = prev.size
  /\ call.Depends = "d2"
  /\ call.Status = "EFI_SUCCESS"

\* C10 (as stated): every entry call with Depends == NULL returns
\* EFI_INVALID_PARAMETER, in the size-query and in the populate form.
C10_NullDependsAlwaysInvalid ==
  (EntryCalled /\ call.Depends = "NULL") => call.Status = "EFI_INVALID_PARAMETER"

\* C10 (amended): with Depends == NULL and setup not failed, the populate
\* form returns EFI_INVALID_PARAMETER, writes nothing into the buffer and
\* leaves the retained dependency table as it was; the size-query form
\* returns EFI_BUFFER_TOO_SMALL.
C10_NullDependsInvalidOnPopulate ==
  (EntryCalled /\ call.Depends = "NULL" /\ SetupDone(call))
    => IF Populate(call)
       THEN /\ call.Status = "EFI_INVALID_PARAMETER"
            /\ call.written = 0
            /\ mCryptoDependencies = call.depsIn
       ELSE call.Status = "EFI_BUFFER_TOO_SMALL"

\* a populate call with a good buffer and a NULL dependency table was
\* rejected after an earlier call had handed a table over
C10_Witness ==
  /\ call.Depends = "NULL"
  /\ Populate(call) /\ call.slot = "buf" /\ call.alloc = SizeofOneCryptoProtocol
  /\ SetupDone(call)
  /\ call.Status = "EFI_INVALID_PARAMETER"
  /\ call.depsIn = "d1"

\* C29: whenever NoSetupCryptoEntry returns a non-success status, the
\* module's retained dependency pointer is the one it held before the call;
\* the pointer changes only in calls that return EFI_SUCCESS.
C29_FailedEntryKeepsDependencies ==
  (call.fn = "NoSetupCryptoEntry" /\ call.Status \notin {"EFI_SUCCESS", "crash"})
    => mCryptoDependencies = call.depsIn

(***************************************************************************)
(* The loaders (OneCryptoLoaders/*.c)                                      *)
(***************************************************************************)
\* how many allocations the pool hands out in one life of the system
MaxAllocs == 4

\* the address of the n-th allocation
Ptr(n) == "p" \o ToString(n)

\* the working state of a loader function: the globals, the heap, the
\* module's retained table, and the log of what the run did
Enter(fn) ==
  [mOneCryptoDepends |-> mOneCryptoDepends, mOneCryptoProtocol |-> mOneCryptoProtocol,
   live |-> heap.live, freed |-> heap.freed, installed |-> installed,
   deps |-> mCryptoDependencies, SectionData |-> "NULL",
   fn |-> fn, Status |-> "none", query |-> NoQuery, populate |-> "none",
   depsAlloc |-> "NULL", capAlloc |-> "NULL", frees |-> <<>>, install |-> FALSE,
   protocolIn |-> mOneCryptoProtocol, dependsIn |-> mOneCryptoDepends,
   invocation |-> run.invocation, depsAllocs |-> run.depsAllocs,
   descriptor |-> "none",
   staleIn |-> mOneCryptoDepends # "NULL" /\ mOneCryptoDepends \notin heap.live]

\* AllocatePool / malloc: a fresh address, or NULL when memory is short
AllocatePool(s, ok) ==
  IF ok THEN Ptr(Cardinality(s.live \cup s.freed) + 1) ELSE "NULL"

Allocated(s, p) == IF p = "NULL" THEN s ELSE [s EXCEPT !.live = @ \cup {p}]

\* FreePool / free
FreePool(s, p) ==
  [s EXCEPT !.live = @ \ {p}, !.freed = @ \cup {p}, !.frees = Append(@, p)]

\* the entry function the loader was handed.  A genuine module runs the
\* code of OneCryptoBin.c; any other module answers the size query and the
\* populate call with the statuses and size it was built to answer.
InvokeEntry(entry, module, a, deps, fault, init) ==
  IF module.kind = "genuine"
  THEN IF entry = "CryptoEntry" THEN CryptoEntry(a, deps, fault, init)
       ELSE NoSetupCryptoEntry(a, deps, fault)
  ELSE IF a.Crypto = "NULL"
       THEN [Untouched(a, deps) EXCEPT !.Status = module.query.Status,
                                       !.size = module.query.size]
       ELSE [Untouched(a, deps) EXCEPT !.Status = module.populate]

SizeQueryArgs(Depends) ==
  [Depends |-> Depends, Crypto |-> "NULL", slot |-> "NULL", alloc |-> 0,
   CryptoSize |-> "ptr", sizeIn |-> 0]

PopulateArgs(Depends, p, CryptoSize) ==
  [Depends |-> Depends, Crypto |-> "ptr", slot |-> p, alloc |-> CryptoSize,
   CryptoSize |-> "ptr", sizeIn |-> CryptoSize]

\* the populate call failed: OneCryptoLoaderDxe.c 381-386,
\* OneCryptoLoaderDxeByProtocol.c 239-244 (the faulty variant forgets the FreePool)
PopulateFailedNoFree(s, p, Status) ==
  [s EXCEPT !.mOneCryptoProtocol = "NULL", !.Status = Status]

PopulateFailed(s, p, Status) ==
  [FreePool(s, p) EXCEPT !.mOneCryptoProtocol = "NULL", !.Status = Status]

\* size query, allocation, populate call and installation as both DXE
\* loaders do them: OneCryptoLoaderDxe.c 358-402,
\* OneCryptoLoaderDxeByProtocol.c 217-260.  The result still has to pass
\* the Exit label.
TwoCall(s, e, entry) ==
  LET q  == InvokeEntry(entry, e.module, SizeQueryArgs(s.mOneCryptoDepends),
                        s.deps, e.fault, e.init1)
      s1 == [s EXCEPT !.deps = q.deps, !.Status = q.Status,
                      !.query = [Status |-> q.Status, size |-> q.size]]
  IN  IF q.Status # "EFI_BUFFER_TOO_SMALL" \/ q.size = 0 THEN s1
      ELSE
        LET p  == AllocatePool(s1, e.capAlloc)
            s2 == [Allocated(s1, p) EXCEPT !.mOneCryptoProtocol = p, !.capAlloc = p]
        IN  IF p = "NULL" THEN [s2 EXCEPT !.Status = "EFI_OUT_OF_RESOURCES"]
            ELSE
              LET r  == InvokeEntry(entry, e.module,
                                    PopulateArgs(s2.mOneCryptoDepends, p, q.size),
                                    s2.deps, e.fault, e.init2)
                  s3 == [s2 EXCEPT !.deps = r.deps, !.Status = r.Status,
                                   !.populate = r.Status,
                                   !.mOneCryptoProtocol = r.slotOut]
              IN  IF r.Status = "crash" THEN s3
                  ELSE IF EFI_ERROR(r.Status) THEN PopulateFailed(s3, p, r.Status)
                  ELSE IF EFI_ERROR(e.install)
                       THEN [s3 EXCEPT !.install = TRUE, !.Status = e.install]
                  ELSE [s3 EXCEPT !.install = TRUE, !.Status = "EFI_SUCCESS",
                                  !.installed = s3.mOneCryptoProtocol]

\* the Exit label: OneCryptoLoaderDxe.c 404-422,
\* OneCryptoLoaderDxeByProtocol.c 262-273
Exit(s) ==
  LET s1 == IF s.SectionData # "NULL" THEN FreePool(s, s.SectionData) ELSE s
  IN  IF s1.Status = "crash" THEN s1
      ELSE IF s1.Status # "EFI_SUCCESS" /\ s1.mOneCryptoDepends # "NULL"
           THEN FreePool(s1, s1.mOneCryptoDepends)
      ELSE s1

\* AllocatePool and InstallSharedDependencies for the dependency table; the
\* log counts the tables ever set up
NewDepends(s, ok) ==
  LET p == AllocatePool(s, ok)
  IN  [Allocated(s, p) EXCEPT !.mOneCryptoDepends = p, !.depsAlloc = p,
                              !.depsAllocs = IF p = "NULL" THEN @ ELSE @ + 1]

\* the faulty variant sets a table up on every entry
SetupDependsEveryTime(s, ok) == NewDepends(s, ok)

\* the shared dependency table is set up once: OneCryptoLoaderDxe.c 287-294,
\* OneCryptoLoaderDxeByProtocol.c 204-212
SetupDepends(s, ok) ==
  IF s.mOneCryptoDepends # "NULL" THEN s ELSE NewDepends(s, ok)

\* DxeEntryPoint of OneCryptoLoaderDxe.c, 260-423
DxeEntryPoint(s0, e) ==
  LET s1 == SetupDepends(s0, e.depsAlloc)
  IN  IF s1.mOneCryptoDepends = "NULL" THEN [s1 EXCEPT !.Status = "EFI_OUT_OF_RESOURCES"]
      ELSE IF EFI_ERROR(e.fv) THEN [s1 EXCEPT !.Status = "EFI_NOT_READY"]
      ELSE
        LET sd == AllocatePool(s1, TRUE)
            s2 == [Allocated(s1, sd) EXCEPT !.SectionData = sd]
        IN  IF EFI_ERROR(e.loadImage) THEN Exit([s2 EXCEPT !.Status = e.loadImage])
            ELSE IF EFI_ERROR(e.handleProtocol) \/ e.loadedImageNull
                 THEN Exit([s2 EXCEPT !.Status = e.handleProtocol])
            ELSE IF EFI_ERROR(e.getEntry) THEN Exit([s2 EXCEPT !.Status = e.getEntry])
            ELSE Exit(TwoCall(s2, e, "CryptoEntry"))

\* the faulty variant does not look at the Entry field
EntryNeverMissing(e) == FALSE

\* ConstructorProtocol->Entry == NULL: OneCryptoLoaderDxeByProtocol.c 192
EntryMissing(e) == e.entryNull

\* what LocateProtocol handed to the loader: no descriptor, one with a wrong
\* Signature, one without an entry function, or a valid one
Descriptor(e) ==
  IF EFI_ERROR(e.locate) THEN "not located"
  ELSE IF ~e.signatureOk THEN "bad signature"
  ELSE IF e.entryNull THEN "no entry"
  ELSE "valid"

\* DxeEntryPoint of OneCryptoLoaderDxeByProtocol.c, 158-274
DxeEntryPointByProtocol(s0, e) ==
  IF EFI_ERROR(e.locate) THEN Exit([s0 EXCEPT !.Status = e.locate])
  ELSE IF ~e.signatureOk THEN Exit([s0 EXCEPT !.Status = "EFI_OUT_OF_RESOURCES"])
  ELSE IF EntryMissing(e) THEN Exit([s0 EXCEPT !.Status = "EFI_UNSUPPORTED"])
  ELSE LET s1 == SetupDepends(s0, e.depsAlloc)
       IN  IF s1.mOneCryptoDepends = "NULL"
           THEN Exit([s1 EXCEPT !.Status = "EFI_OUT_OF_RESOURCES"])
           ELSE Exit(TwoCall(s1, e, "NoSetupCryptoEntry"))

\* OneCryptoHostLoaderInit, OneCryptoLoaderHost.c 275-331: CryptoEntry is
\* linked in, the dependency table is the static mHostDependencies
OneCryptoHostLoaderInit(s, e) ==
  LET q  == CryptoEntry(SizeQueryArgs("mHostDependencies"), s.deps, e.fault, e.init1)
      s1 == [s EXCEPT !.deps = q.deps,
                      !.query = [Status |-> q.Status, size |-> q.size]]
  IN  IF q.Status # "EFI_BUFFER_TOO_SMALL" \/ q.size = 0
      THEN [s1 EXCEPT !.Status = "EFI_PROTOCOL_ERROR"]
      ELSE
        LET p  == AllocatePool(s1, e.capAlloc)
            s2 == [Allocated(s1, p) EXCEPT !.capAlloc = p]
        IN  IF p = "NULL" THEN [s2 EXCEPT !.Status = "EFI_OUT_OF_RESOURCES"]
            ELSE
              LET r  == CryptoEntry(PopulateArgs("mHostDependencies", p, q.size),
                                    s2.deps, e.fault, e.init2)
                  s3 == [s2 EXCEPT !.deps = r.deps, !.Status = r.Status,
                                   !.populate = r.Status]
              IN  IF r.Status = "crash" THEN s3
                  ELSE IF EFI_ERROR(r.Status) THEN FreePool(s3, p)
                  ELSE [s3 EXCEPT !.mOneCryptoProtocol = r.slotOut]

\* OneCryptoHostLoaderCleanup, OneCryptoLoaderHost.c 338-348
OneCryptoHostLoaderCleanup(s) ==
  IF s.mOneCryptoProtocol # "NULL"
  THEN [FreePool(s, s.mOneCryptoProtocol) EXCEPT !.mOneCryptoProtocol = "NULL",
                                                 !.Status = "void"]
  ELSE [s EXCEPT !.Status = "void"]

\* the modules a DXE loader may be handed
Modules ==
  { [kind |-> "genuine", query |-> NoQuery, populate |-> "none"] }
  \cup { [kind |-> "foreign", query |-> [Status |-> st, size |-> z], populate |-> ps] :
           st \in {"EFI_SUCCESS", "EFI_BUFFER_TOO_SMALL", "EFI_UNSUPPORTED"},
           z \in {0, SizeofOneCryptoProtocol},
           ps \in {"EFI_SUCCESS", "EFI_INVALID_PARAMETER", "EFI_DEVICE_ERROR"} }

\* what the boot services and the firmware volume may answer
DxeEnvs ==
  [depsAlloc : BOOLEAN, fv : {"EFI_SUCCESS", "EFI_NOT_FOUND"},
   loadImage : {"EFI_SUCCESS", "EFI_LOAD_ERROR"},
   handleProtocol : {"EFI_SUCCESS", "EFI_UNSUPPORTED"}, loadedImageNull : BOOLEAN,
   getEntry : {"EFI_SUCCESS", "EFI_NOT_FOUND"},
   module : Modules, init1 : InitOutcomes, init2 : InitOutcomes,
   capAlloc : BOOLEAN, install : {"EFI_SUCCESS", "EFI_OUT_OF_RESOURCES"},
   fault : BOOLEAN]

ByProtocolEnvs ==
  [locate : {"EFI_SUCCESS", "EFI_NOT_FOUND"}, signatureOk : BOOLEAN, entryNull : BOOLEAN,
   depsAlloc : BOOLEAN, module : Modules, init1 : {"not called"}, init2 : {"not called"},
   capAlloc : BOOLEAN, install : {"EFI_SUCCESS", "EFI_OUT_OF_RESOURCES"},
   fault : BOOLEAN]

HostEnvs ==
  [init1 : InitOutcomes, init2 : InitOutcomes, capAlloc : BOOLEAN, fault : BOOLEAN]

\* the function returns: its globals, heap and log become the state
Commit(s) ==
  /\ mOneCryptoDepends' = s.mOneCryptoDepends
  /\ mOneCryptoProtocol' = s.mOneCryptoProtocol
  /\ heap' = [live |-> s.live, freed |-> s.freed]
  /\ installed' = s.installed
  /\ mCryptoDependencies' = s.deps
  /\ run' = [fn |-> s.fn, Status |-> s.Status, query |-> s.query, populate |-> s.populate,
             depsAlloc |-> s.depsAlloc, capAlloc |-> s.capAlloc, frees |-> s.frees,
             install |-> s.install, protocolIn |-> s.protocolIn,
             dependsIn |-> s.dependsIn, invocation |-> s.invocation,
             depsAllocs |-> s.depsAllocs, descriptor |-> s.descriptor,
             staleIn |-> s.staleIn]
  /\ UNCHANGED <<peVars, call, prev, loader, crt, harnessVars, platformVars>>

Running == run.Status # "crash"

InitLoader ==
  /\ PeIdle /\ EntryIdle /\ LoaderIdle
  /\ loader \in {"Dxe", "DxeByProtocol", "Host"}
  /\ crt = NoCrt /\ HarnessIdle /\ PlatformIdle

\* how often a DXE entry point is entered in one life of the driver image
MaxInvocations == 2

\* a DXE driver image whose entry point returned an error is unloaded, and
\* its globals with it; one whose entry point returned EFI_SUCCESS stays
\* resident and may be entered again
Resident == run.Status \in {"none", "EFI_SUCCESS"} /\ run.invocation < MaxInvocations

Invoked(s) == [s EXCEPT !.invocation = @ + 1]

\* the log notes what the private protocol lookup handed to the loader
Handed(s, e) == [s EXCEPT !.descriptor = Descriptor(e)]

RunDxeEntryPoint ==
  /\ loader = "Dxe" /\ Resident
  /\ \E e \in DxeEnvs : Commit(DxeEntryPoint(Invoked(Enter("DxeEntryPoint")), e))

RunDxeEntryPointByProtocol ==
  /\ loader = "DxeByProtocol" /\ Resident
  /\ \E e \in ByProtocolEnvs :
       Commit(DxeEntryPointByProtocol(Handed(Invoked(Enter("DxeEntryPoint")), e), e))

\* the host loader's functions may be called at any time, in any order
RunOneCryptoHostLoaderInit ==
  /\ loader = "Host" /\ Running
  /\ Cardinality(heap.live \cup heap.freed) < MaxAllocs
  /\ \E e \in HostEnvs :
       Commit(OneCryptoHostLoaderInit(Enter("OneCryptoHostLoaderInit"), e))

RunOneCryptoHostLoaderCleanup ==
  /\ loader = "Host" /\ Running
  /\ Commit(OneCryptoHostLoaderCleanup(Enter("OneCryptoHostLoaderCleanup")))

NextLoader ==
  \/ RunDxeEntryPoint
  \/ RunDxeEntryPointByProtocol
  \/ RunOneCryptoHostLoaderInit
  \/ RunOneCryptoHostLoaderCleanup

SpecLoader == InitLoader /\ [][NextLoader]_vars

\* A caller that enters a DXE entry point again whatever the last
\* invocation returned: the globals of the image are those the last
\* invocation left behind.
InitReenter == InitLoader /\ loader \in {"Dxe", "DxeByProtocol"}

Reentrant == run.Status # "crash" /\ run.invocation < MaxInvocations

ReenterDxeEntryPoint ==
  /\ loader = "Dxe" /\ Reentrant
  /\ \E e \in DxeEnvs : Commit(DxeEntryPoint(Invoked(Enter("DxeEntryPoint")), e))

ReenterDxeEntryPointByProtocol ==
  /\ loader = "DxeByProtocol" /\ Reentrant
  /\ \E e \in ByProtocolEnvs :
       Commit(DxeEntryPointByProtocol(Handed(Invoked(Enter("DxeEntryPoint")), e), e))

NextReenter ==
  \/ ReenterDxeEntryPoint
  \/ ReenterDxeEntryPointByProtocol

SpecReenter == InitReenter /\ [][NextReenter]_vars

(***************************************************************************)
(* Claims about the loaders                                                *)
(***************************************************************************)
\* the run made its size query and the answer was not a usable size
BadSizeQuery ==
  /\ run.query.Status # "none"
  /\ run.query.Status # "EFI_BUFFER_TOO_SMALL" \/ run.query.size = 0

\* C7: in every loader, a size query that returns a status other than
\* EFI_BUFFER_TOO_SMALL (EFI_SUCCESS included) or a size of 0 makes the
\* loader return failure, allocate no capability table, make no populate
\* call and install no protocol.
C7_BadSizeQueryFailsLoader ==
  BadSizeQuery
    => /\ EFI_ERROR(run.Status)
       /\ run.capAlloc = "NULL"
       /\ run.populate = "none"
       /\ ~run.install

\* the populate call of the run returned an error status
PopulateError == run.populate \notin {"none", "EFI_SUCCESS", "crash"}

\* how often the run freed p
TimesFreed(p) == Cardinality({i \in DOMAIN run.frees : run.frees[i] = p})

\* C8 (as stated): in every loader, a populate call that returns an error
\* frees the capability-table allocation exactly once, leaves the retained
\* capability pointer NULL, and the loader returns that same error.
C8_PopulateErrorLeavesNull ==
  PopulateError
    => /\ TimesFreed(run.capAlloc) = 1
       /\ mOneCryptoProtocol = "NULL"
       /\ run.Status = run.populate

\* C8 (amended): in every loader, a populate call that returns an error
\* frees the capability-table allocation exactly once, installs nothing,
\* and the loader returns that same error; the DXE loaders leave the
\* retained capability pointer NULL, the host loader leaves it as it was
\* before the call (NULL unless an earlier initialisation succeeded and was
\* not cleaned up).
C8_PopulateErrorFreesOnce ==
  PopulateError
    => /\ run.capAlloc # "NULL"
       /\ TimesFreed(run.capAlloc) = 1
       /\ run.capAlloc \in heap.freed /\ run.capAlloc \notin heap.live
       /\ run.Status = run.populate
       /\ ~run.install
       /\ mOneCryptoProtocol = IF loader = "Host" THEN run.protocolIn ELSE "NULL"

\* the DXE loader's populate call failed after a good size query
C8_Witness ==
  /\ loader = "Dxe"
  /\ run.query = [Status |-> "EFI_BUFFER_TOO_SMALL", size |-> SizeofOneCryptoProtocol]
  /\ run.populate = "EFI_DEVICE_ERROR"
  /\ run.Status = "EFI_DEVICE_ERROR"
  /\ run.capAlloc \in heap.freed

DxeLoader == loader \in {"Dxe", "DxeByProtocol"}

\* C11: across any sequence of DxeEntryPoint invocations in one life of the
\* driver (either DXE loader), the dependency table is allocated and filled
\* by InstallSharedDependencies at most once; an invocation that finds a
\* table in mOneCryptoDepends allocates none and keeps using that one.
C11_DependsSetUpOnce ==
  DxeLoader
    => /\ run.depsAllocs <= 1
       /\ run.dependsIn # "NULL"
            => /\ run.depsAlloc = "NULL"
               /\ mOneCryptoDepends = run.dependsIn

\* a second invocation ran with the table of the first
C11_Witness ==
  /\ DxeLoader
  /\ run.invocation = 2
  /\ run.dependsIn # "NULL"
  /\ run.depsAllocs = 1
  /\ mOneCryptoDepends = run.dependsIn

\* C12: whenever DxeEntryPoint of OneCryptoLoaderDxe returns a non-success
\* status and a dependency table had been allocated, that table has been
\* freed by the time it returns, on every failure path.
C12_FailureFreesDepends ==
  (loader = "Dxe" /\ run.fn # "none" /\ run.Status \notin {"EFI_SUCCESS", "crash"}
     /\ mOneCryptoDepends # "NULL")
    => /\ mOneCryptoDepends \in heap.freed
       /\ mOneCryptoDepends \notin heap.live

\* C13: after any sequence of DxeEntryPoint invocations (either DXE
\* loader), whenever a capability table is published (the OneCrypto
\* protocol is installed), the dependency table whose pointer the module
\* retained through OneCryptoCrtSetup has not been freed.
C13_PublishedKeepsDepends ==
  (DxeLoader /\ installed # "NULL") => mCryptoDependencies \notin heap.freed

\* the run called the entry function
EntryInvoked == run.query.Status # "none"

\* C24: DxeEntryPoint of OneCryptoLoaderDxeByProtocol invokes the entry
\* function only if the private protocol was located, its Signature is
\* 'ONEC' and its Entry field is not NULL; in every other case it returns a
\* non-success status without calling Entry and without allocating a
\* dependency table.
C24_EntryOnlyFromValidDescriptor ==
  (loader = "DxeByProtocol" /\ run.fn # "none")
    => /\ EntryInvoked => run.descriptor = "valid"
       /\ run.descriptor # "valid"
            => /\ EFI_ERROR(run.Status)
               /\ ~EntryInvoked
               /\ run.populate = "none"
               /\ run.depsAlloc = "NULL"

\* a descriptor with a good signature and no entry function was refused
C24_Witness ==
  /\ loader = "DxeByProtocol"
  /\ run.descriptor = "no entry"
  /\ run.Status = "EFI_UNSUPPORTED"
  /\ ~EntryInvoked
  /\ run.depsAlloc = "NULL"

\* C25: after every return of DxeEntryPoint of OneCryptoLoaderDxe the
\* retained capability pointer mOneCryptoProtocol is non-NULL exactly when
\* the status is EFI_SUCCESS, EFI_SUCCESS is returned only when the
\* capability table was populated and the protocol installed, and on every
\* failure return the capability table the run allocated is no longer live.
C25_ProtocolIffSuccess ==
  (loader = "Dxe" /\ run.fn # "none" /\ run.Status # "crash")
    => /\ mOneCryptoProtocol # "NULL" <=> run.Status = "EFI_SUCCESS"
       /\ run.Status = "EFI_SUCCESS"
            => /\ run.populate = "EFI_SUCCESS"
               /\ installed # "NULL" /\ installed = mOneCryptoProtocol
       /\ run.Status # "EFI_SUCCESS" => run.capAlloc \notin heap.live

\* C26: across any sequence of DxeEntryPoint invocations (either DXE
\* loader), invocations that follow a failed one included, the dependency
\* table is never passed to the entry function and never freed after it
\* has been freed, and whenever mOneCryptoDepends is non-NULL on entry it
\* refers to a live allocation.
C26_DependsNeverStale ==
  DxeLoader
    => /\ mOneCryptoDepends # "NULL" => mOneCryptoDepends \in heap.live
       /\ ~run.staleIn
       /\ run.staleIn => ~EntryInvoked
       /\ run.staleIn => TimesFreed(run.dependsIn) = 0

(***************************************************************************)
(* PeCoffLoadImage: frame of the relocation step, failure paths, header    *)
(* copy                                                                    *)
(***************************************************************************)
\* the load came as far as the relocation step
RelocReached == PeCalled /\ peOut.before # <<>>

\* C21: the relocation step leaves every byte of the mapped image unchanged
\* when the load delta is 0, when NumberOfRvaAndSizes <= 5, or when the
\* base-relocation directory has RVA 0 or Size 0; the load then returns 0,
\* also with a non-zero delta.
C21_NoRelocationNoChange ==
  (RelocReached /\ (IsZero(ImageDelta) \/ NoRelocDirectory(peIn.f)))
    => /\ peOut.image = peOut.before
       /\ peOut.ret = "0"
       /\ peOut.fixups = {}

C21_Witness ==
  /\ RelocReached
  /\ ~IsZero(ImageDelta)
  /\ peIn.f.nRva = DirBaseReloc
  /\ peIn.f.relocVa = U32(ImgReloc) /\ peIn.f.relocSize = U32(RelocLen)
  /\ \E j \in DOMAIN peIn.f.entries : peIn.f.entries[j].type = RelDir64
  /\ peOut.ret = "0"

\* the load failed after the header checks had passed
FailedAfterHeaders ==
  /\ PeCalled /\ peIn.env.io = "ok"
  /\ ~FailsHeaderCheck(peIn.f)
  /\ peOut.ret = "-1"

\* C22: a load that fails after the header checks passed (the image region
\* cannot be allocated, or a section is rejected as out of bounds) returns -1
\* with the image region unmapped if it was mapped, the file buffer freed,
\* *ImageBase NULL and *ImageSize 0.
C22_FailedLoadLeavesNothing ==
  FailedAfterHeaders =>
    /\ peOut.fileFreed
    /\ peOut.mapped => peOut.unmapped
    /\ peOut.ImageBase = "NULL" /\ peOut.ImageSize = 0

C22_Witness ==
  /\ FailedAfterHeaders
  /\ peOut.mapped /\ peOut.unmapped
  /\ peOut.stage = "section va"

\* C27: the header copy is performed only when SizeOfHeaders <= FileSize and
\* SizeOfHeaders <= SizeOfImage, so that it never reads past the end of the
\* file buffer and never writes past the end of the mapped image.
C27_HeaderCopyInsideBuffers ==
  \A n \in { peOut.hdrCopy[k] : k \in DOMAIN peOut.hdrCopy } :
    /\ n <= peIn.f.fileSize
    /\ n <= Val(peIn.f.sizeOfImage)

(***************************************************************************)
(* PeCoffFindExport (PeCoffLoaderHost.c lines 309-389)                     *)
(***************************************************************************)
DirExport == 0
SizeofExportDir == 40
EdNumberOfFunctions == 20
EdNumberOfNames == 24
EdAddressOfFunctions == 28
EdAddressOfNames == 32
EdAddressOfNameOrdinals == 36

\* names and functions of the export table; characters of a name
MaxExports == 2
MaxNameLen == 2
\* calls of PeCoffFindExport on one image
MaxFindCalls == 2

\* the loaded image the search runs on: headers, one data directory, the
\* export directory, then its three tables and the name strings
ExPe == OffLfanew + 4
ExOpt == ExPe + SizeofSignature + SizeofFileHeader
ExDir == ExOpt + SizeofOptHeader
ExTable == ExDir + SizeofDataDir
ExFunctions == ExTable + SizeofExportDir
ExNames == ExFunctions + 4 * MaxExports
ExOrdinals == ExNames + 4 * MaxExports
ExStrings == ExOrdinals + 2 * MaxExports
ExSlot == MaxNameLen + 1
ExSize == ExStrings + MaxExports * ExSlot

\* the RVA the k-th function is exported at (the first one at RVA 0)
FuncRva(k) == 16 * (k - 1)

\* offset o lies in the 32-bit field at offset at
InField(o, at) == o >= at /\ o < at + 4

BuildExport(x) ==
  LET At(o, at, bs) == bs[o - at + 1]
      Byte(o) ==
        IF InField(o, OffLfanew) THEN At(o, OffLfanew, U32(ExPe))
        ELSE IF InField(o, ExOpt + OhNumberOfRvaAndSizes)
          THEN At(o, ExOpt + OhNumberOfRvaAndSizes, U32(x.nRva))
        ELSE IF InField(o, ExDir + DirExport * SizeofDataDir)
          THEN At(o, ExDir + DirExport * SizeofDataDir, U32(x.exportVa))
        ELSE IF InField(o, ExTable + EdNumberOfFunctions)
          THEN At(o, ExTable + EdNumberOfFunctions, U32(MaxExports))
        ELSE IF InField(o, ExTable + EdNumberOfNames)
          THEN At(o, ExTable + EdNumberOfNames, U32(x.nNames))
        ELSE IF InField(o, ExTable + EdAddressOfFunctions)
          THEN At(o, ExTable + EdAddressOfFunctions, U32(ExFunctions))
        ELSE IF InField(o, ExTable + EdAddressOfNames)
          THEN At(o, ExTable + EdAddressOfNames, U32(ExNames))
        ELSE IF InField(o, ExTable + EdAddressOfNameOrdinals)
          THEN At(o, ExTable + EdAddressOfNameOrdinals, U32(ExOrdinals))
        ELSE IF o >= ExFunctions /\ o < ExNames
          THEN U32(FuncRva((o - ExFunctions) \div 4 + 1))[((o - ExFunctions) % 4) + 1]
        ELSE IF o >= ExNames /\ o < ExOrdinals
          THEN LET k == (o - ExNames) \div 4 + 1
               IN  IF k <= Len(x.names)
                   THEN U32(ExStrings + (k - 1) * ExSlot)[((o - ExNames) % 4) + 1]
                   ELSE 0
        ELSE IF o >= ExOrdinals /\ o < ExStrings
          THEN LET k == (o - ExOrdinals) \div 2 + 1
               IN  IF k <= Len(x.ordinals)
                   THEN LE(x.ordinals[k], 2)[((o - ExOrdinals) % 2) + 1]
                   ELSE 0
        ELSE IF o >= ExStrings /\ o < ExSize
          THEN LET k == (o - ExStrings) \div ExSlot + 1
                   c == ((o - ExStrings) % ExSlot) + 1
               IN  IF k <= Len(x.names) /\ c <= Len(x.names[k]) THEN x.names[k][c] ELSE 0
        ELSE 0
  IN  [i \in 1..ExSize |-> Byte(i - 1)] \o <<>>

\* the characters of the NUL-terminated string at off
RECURSIVE CString(_, _)
CString(img, off) ==
  IF off >= Len(img) \/ img[off + 1] = 0 THEN <<>>
  ELSE <<img[off + 1]>> \o CString(img, off + 1)

\* the faulty variant compares only as many characters as Name has
strncmpPrefix(img, off, name) ==
  LET t == CString(img, off)
  IN  Len(t) >= Len(name) /\ SubSeq(t, 1, Len(name)) = name

\* strcmp (ExportName, Name) == 0: line 375
strcmp(img, off, name) == CString(img, off) = name

\* Base + FuncRva
ImagePlus(rva) == "img+" \o ToString(rva)

\* the search loop: lines 372-384
RECURSIVE SearchExport(_, _, _, _)
SearchExport(img, x, tab, i) ==
  LET Functions == Val(RdMem(img, tab + EdAddressOfFunctions, 4))
      Names     == Val(RdMem(img, tab + EdAddressOfNames, 4))
      Ordinals  == Val(RdMem(img, tab + EdAddressOfNameOrdinals, 4))
      NumberOfNames == Val(RdMem(img, tab + EdNumberOfNames, 4))
      Ordinal   == Val(RdMem(img, Ordinals + 2 * i, 2))
      at        == Cap(Functions + 4 * Ordinal)
  IN  IF i >= NumberOfNames THEN "NULL"
      ELSE IF strcmp(img, Val(RdMem(img, Names + 4 * i, 4)), x.Name)
        THEN IF at + 4 <= Len(img) THEN ImagePlus(Val(RdMem(img, at, 4)))
             \* Functions[Ordinal] lies outside the image: the read traps, or
             \* yields whatever the neighbouring memory holds
             ELSE IF x.fault THEN "crash" ELSE "wild"
      ELSE SearchExport(img, x, tab, i + 1)

PeCoffFindExport(x) ==
  IF x.ImageBase = "NULL" \/ x.NamePtr = "NULL" THEN "NULL"
  ELSE
    LET img      == BuildExport(x)
        PeOffset == Val(RdMem(img, OffLfanew, 4))
        opt      == PeOffset + SizeofSignature + SizeofFileHeader
        nrva     == RdMem(img, opt + OhNumberOfRvaAndSizes, 4)
        dir      == opt + OhNumberOfRvaAndSizes + 4 + DirExport * SizeofDataDir
        va       == RdMem(img, dir, 4)
    IN  IF ~LtLE(U32(DirExport), nrva) THEN "NULL"
        ELSE IF IsZero(va) THEN "NULL"
        ELSE SearchExport(img, x, Val(va), 0)

\* names asked for: "A", "AB", "B"; names exported: "A", "AB"
Strs == { <<65>>, <<65, 66>>, <<66>> }
ExportNames == { <<65>>, <<65, 66>> }

\* ordinals: inside the function table, past it but inside the image, and
\* far outside the image
OrdinalValues == {0, 1, MaxExports + 1, 4096}

\* a sound image asked for the name "A"
FindBase ==
  [ImageBase |-> "img", NamePtr |-> "name", Name |-> <<65>>, nRva |-> 16,
   exportVa |-> ExTable, names |-> << <<65, 66>>, <<65>> >>, nNames |-> 2,
   ordinals |-> <<0, 1>>, fault |-> FALSE]

FindInputs ==
  { [FindBase EXCEPT !.ImageBase = b, !.NamePtr = p, !.nRva = nr, !.exportVa = va] :
      b \in {"NULL", "img"}, p \in {"NULL", "name"}, nr \in {0, 1, 16},
      va \in {0, ExTable} }
  \cup UNION { { [FindBase EXCEPT !.Name = nm, !.names = ns, !.nNames = nn,
                                  !.ordinals = os, !.fault = ft] :
                   nm \in Strs, ns \in [1..n -> ExportNames],
                   nn \in {k \in {n - 1, n} : k >= 0},
                   os \in [1..n -> OrdinalValues], ft \in BOOLEAN } :
               n \in 0..MaxExports }

InitFind ==
  /\ find \in { [in |-> x, ret |-> "not called", first |-> "not called", calls |-> 0] :
                  x \in FindInputs }
  /\ PeIdle /\ EntryIdle /\ loader = "none" /\ LoaderIdle
  /\ crt = NoCrt /\ fuzz = FuzzIdle /\ race = NoRace /\ PlatformIdle

CallPeCoffFindExport ==
  /\ find.calls < MaxFindCalls
  /\ find.ret # "crash"
  /\ LET r == PeCoffFindExport(find.in)
     IN  find' = [find EXCEPT !.ret = r,
                              !.first = IF find.calls = 0 THEN r ELSE @,
                              !.calls = @ + 1]
  /\ UNCHANGED <<peVars, entryVars, loaderVars, crt, fuzz, race, platformVars>>

NextFind == CallPeCoffFindExport

SpecFind == InitFind /\ [][NextFind]_vars

\* the indices below NumberOfNames whose name is the one asked for
Matches(x) == { i \in 1..Min(x.nNames, Len(x.names)) : x.names[i] = x.Name }

Lowest(S) == CHOOSE i \in S : \A k \in S : i <= k

NoExport(x) ==
  \/ x.ImageBase = "NULL" \/ x.NamePtr = "NULL"
  \/ x.nRva = 0 \/ x.exportVa = 0
  \/ Matches(x) = {}

\* C16: PeCoffFindExport returns ImageBase + Functions[Ordinals[i]] for the
\* lowest i < NumberOfNames whose name equals Name; it returns NULL when
\* ImageBase or Name is NULL, NumberOfRvaAndSizes is 0, the export directory
\* RVA is 0, or no name matches; a repeated call on the same image and Name
\* returns the same result.
C16_FindExport ==
  find.calls > 0 =>
    LET x == find.in
    IN  /\ find.ret = find.first
        /\ NoExport(x) => find.ret = "NULL"
        /\ ~NoExport(x) =>
             LET ord == x.ordinals[Lowest(Matches(x))]
                 at  == ExFunctions + 4 * ord
             IN  /\ ord < MaxExports => find.ret = ImagePlus(FuncRva(ord + 1))
                 /\ at + 4 <= ExSize =>
                      find.ret = ImagePlus(Val(RdMem(BuildExport(x), at, 4)))

C16_Witness ==
  /\ find.calls = 2
  /\ find.in.Name = <<65>>
  /\ find.in.names = << <<65>>, <<65>> >> /\ find.in.nNames = 2
  /\ find.in.ordinals = <<1, 0>>
  /\ find.ret = ImagePlus(FuncRva(2))

\* C28: every read of PeCoffFindExport lies inside the mapped image, the
\* function-RVA entry is selected by an ordinal below NumberOfFunctions, and
\* an export table whose ordinals point past the function table or outside
\* the image yields NULL instead of an out-of-range read or a wrong address.
C28_FindExportReadsInsideImage ==
  find.calls > 0 =>
    LET x == find.in
    IN  /\ find.ret \notin {"crash", "wild"}
        /\ (~NoExport(x) /\ x.ordinals[Lowest(Matches(x))] >= MaxExports)
             => find.ret = "NULL"

(***************************************************************************)
(* The fuzz harness (Test/Fuzz/OneCryptoFuzzHarnessHost.c lines 320-450)   *)
(***************************************************************************)
\* malloc / mmap: a block never handed out before
FreshBlock(s) == Ptr(Cardinality(s.live \cup s.freed) + 1)

FuzzAllocate(s, p) == [s EXCEPT !.live = @ \cup {p}]
\* free
FuzzRelease(s, p) == [s EXCEPT !.live = @ \ {p}, !.freed = @ \cup {p}]

\* PeCoffUnloadImage (PeCoffLoaderHost.c lines 396-409) does not unmap: the
\* image stays mapped
PeCoffUnloadImage(s, p) == s

FuzzReturn(s, ret) == [s EXCEPT !.ret = ret]

\* OneCryptoFuzzInit: lines 320-409.  ready follows the calls: an
\* initialisation that ran the bootstrap sets it to whether it returned 0
OneCryptoFuzzInit(s0, e) ==
  LET s == [s0 EXCEPT !.fn = "OneCryptoFuzzInit", !.got = "none"]
      \* msg: what the function last printed to stderr
      Failed(t, msg) == [FuzzReturn(t, "-1") EXCEPT !.ready = FALSE, !.msg = msg]
      img == FreshBlock(s)
      s1  == [FuzzAllocate(s, img) EXCEPT !.mLoadedImage = img]
      buf == FreshBlock(s1)
      s2  == FuzzAllocate(s1, buf)
  IN  IF s.mInitialized # 0 THEN [FuzzReturn(s, "0") EXCEPT !.msg = ""]
      ELSE IF ~e.binary THEN Failed(s, "Cannot find OneCrypto binary")
      \* PeCoffLoadImage clears *ImageBase before it fails (its lines 66-67)
      ELSE IF ~e.load THEN Failed([s EXCEPT !.mLoadedImage = "NULL"], "Failed to load PE/COFF image")
      ELSE IF ~e.export
        THEN Failed([PeCoffUnloadImage(s1, img) EXCEPT !.mLoadedImage = "NULL"],
                    "CryptoEntry export not found in image")
      ELSE IF e.query.Status # "EFI_BUFFER_TOO_SMALL" \/ e.query.size = 0 THEN Failed(s1, "Failed to query crypto protocol size")
      ELSE IF ~e.malloc THEN Failed(s1, "Failed to allocate memory for crypto protocol")
      ELSE IF EFI_ERROR(e.populate) THEN Failed(FuzzRelease(s2, buf), "CryptoEntry failed")
      ELSE [FuzzReturn(s2, "0") EXCEPT !.mFuzzProtocol = buf, !.mInitialized = 1,
                                       !.ready = TRUE,
                                       !.msg = "Crypto protocol initialized"]

\* the faulty variant leaves mFuzzProtocol as it was
OneCryptoFuzzCleanupKeepsPointer(s0) ==
  LET s == [s0 EXCEPT !.fn = "OneCryptoFuzzCleanup", !.ret = "void", !.got = "none",
                      !.ready = FALSE]
  IN  IF s.mInitialized = 0 THEN s
      ELSE [FuzzRelease(s, s.mFuzzProtocol) EXCEPT !.mInitialized = 0]

\* OneCryptoFuzzCleanup: lines 416-437
OneCryptoFuzzCleanup(s0) ==
  LET s  == [s0 EXCEPT !.fn = "OneCryptoFuzzCleanup", !.ret = "void", !.got = "none",
                       !.ready = FALSE]
      s1 == IF s.mFuzzProtocol # "NULL"
            THEN [FuzzRelease(s, s.mFuzzProtocol) EXCEPT !.mFuzzProtocol = "NULL"]
            ELSE s
      s2 == IF s1.mLoadedImage # "NULL"
            THEN [PeCoffUnloadImage(s1, s1.mLoadedImage) EXCEPT !.mLoadedImage = "NULL"]
            ELSE s1
  IN  IF s.mInitialized = 0 THEN s
      ELSE [s2 EXCEPT !.mInitialized = 0]

\* OneCryptoFuzzGetProtocol: lines 444-450
OneCryptoFuzzGetProtocol(s) ==
  [s EXCEPT !.fn = "OneCryptoFuzzGetProtocol", !.ret = s.mFuzzProtocol,
            !.got = s.mFuzzProtocol]

\* what the file system, the image and its CryptoEntry export may answer
FuzzEnvs ==
  [binary : BOOLEAN, load : BOOLEAN, export : BOOLEAN,
   query : { [Status |-> "EFI_BUFFER_TOO_SMALL", size |-> SizeofOneCryptoProtocol],
             [Status |-> "EFI_BUFFER_TOO_SMALL", size |-> 0],
             [Status |-> "EFI_INVALID_PARAMETER", size |-> 0] },
   malloc : BOOLEAN, populate : {"EFI_SUCCESS", "EFI_INVALID_PARAMETER"}]

\* blocks malloc and mmap hand out in one run of the harness
MaxBlocks == 6

InitFuzz ==
  /\ fuzz = FuzzIdle
  /\ PeIdle /\ EntryIdle /\ loader = "none" /\ LoaderIdle
  /\ crt = NoCrt /\ find = NoFind /\ race = NoRace /\ PlatformIdle

FuzzUnchanged == UNCHANGED <<peVars, entryVars, loaderVars, crt, find, race, platformVars>>

CallOneCryptoFuzzInit ==
  /\ Cardinality(fuzz.live \cup fuzz.freed) + 2 <= MaxBlocks
  /\ \E e \in FuzzEnvs : fuzz' = OneCryptoFuzzInit(fuzz, e)
  /\ FuzzUnchanged

CallOneCryptoFuzzCleanup ==
  /\ fuzz' = OneCryptoFuzzCleanup(fuzz)
  /\ FuzzUnchanged

CallOneCryptoFuzzGetProtocol ==
  /\ fuzz' = OneCryptoFuzzGetProtocol(fuzz)
  /\ FuzzUnchanged

NextFuzz ==
  \/ CallOneCryptoFuzzInit
  \/ CallOneCryptoFuzzCleanup
  \/ CallOneCryptoFuzzGetProtocol

SpecFuzz == InitFuzz /\ [][NextFuzz]_vars

\* C18: after any sequence of OneCryptoFuzzInit and OneCryptoFuzzCleanup
\* calls, OneCryptoFuzzGetProtocol returns non-NULL exactly when the harness
\* is initialised (the most recent Init that ran the bootstrap returned 0 and
\* no Cleanup ran since); after a failed Init or a Cleanup it returns NULL.
C18_ProtocolIffInitialized ==
  fuzz.fn = "OneCryptoFuzzGetProtocol" =>
    /\ fuzz.got # "NULL" <=> fuzz.ready
    /\ fuzz.got # "NULL" => fuzz.got \in fuzz.live

\* initialised again after an earlier protocol buffer was freed
C18_Witness ==
  /\ fuzz.fn = "OneCryptoFuzzGetProtocol"
  /\ fuzz.got # "NULL"
  /\ fuzz.freed # {}

(***************************************************************************)
(* The already-initialized guards, statement by statement, under two       *)
(* invocations: "mOneCryptoDepends" is DxeEntryPoint lines 287-294 of      *)
(* OneCryptoLoaderDxe.c, "mInitialized" is OneCryptoFuzzInit lines 331-407 *)
(* of OneCryptoFuzzHarnessHost.c.                                          *)
(***************************************************************************)
Callers == {1, 2}
Other(t) == IF t = 1 THEN 2 ELSE 1

\* the faulty variant enters whatever the guard variable holds
GuardIgnored(r) == TRUE

\* if (mOneCryptoDepends == NULL) / if (mInitialized) return 0
GuardClear(r) == r.flag \in {"NULL", "0"}

\* the invocation has passed the check and not yet made the assignment that
\* closes the guard (mOneCryptoDepends = AllocatePool (...), mInitialized = 1)
InWindow(r, t) ==
  IF r.guard = "mOneCryptoDepends" THEN r.pc[t] = "passed"
  ELSE r.pc[t] \in {"passed", "acquired"}

\* the check: line 287 / line 331
GuardCheck(r, t) ==
  IF GuardClear(r)
  THEN [r EXCEPT !.pc[t] = "passed", !.calls[t] = @ + 1,
                 !.overlapped = @ \/ InWindow(r, Other(t))]
  ELSE [r EXCEPT !.pc[t] = "skipped", !.calls[t] = @ + 1]

\* AllocatePool and the assignment of its result (line 288) / the bootstrap
\* up to the populate call (lines 336-396), which keeps the buffer in a local
GuardAcquire(r, t, ok) ==
  LET p == IF ok THEN Ptr(r.allocs + 1) ELSE "NULL"
      r1 == [r EXCEPT !.mine[t] = p, !.allocs = IF ok THEN @ + 1 ELSE @,
                      !.pc[t] = IF ok THEN "acquired" ELSE "failed"]
  IN  IF r.guard = "mOneCryptoDepends"
      THEN [r1 EXCEPT !.flag = p, !.resource = p]
      ELSE r1

\* InstallSharedDependencies (mOneCryptoDepends) (line 293) / mFuzzProtocol =
\* CryptoProtocol; mInitialized = 1 (lines 398-407): one more initialisation
GuardPublish(r, t) ==
  LET r1 == [r EXCEPT !.pc[t] = "done", !.inits = @ + 1]
  IN  IF r.guard = "mOneCryptoDepends" THEN r1
      ELSE [r1 EXCEPT !.resource = r.mine[t], !.flag = "1"]

\* the invocation is over
GuardReturn(r, t) == [r EXCEPT !.pc[t] = "idle", !.mine[t] = "NULL"]

InitRace ==
  /\ race \in { [NoRace EXCEPT !.guard = "mOneCryptoDepends"],
                [NoRace EXCEPT !.guard = "mInitialized", !.flag = "0"] }
  /\ PeIdle /\ EntryIdle /\ loader = "none" /\ LoaderIdle
  /\ crt = NoCrt /\ find = NoFind /\ fuzz = FuzzIdle /\ PlatformIdle

RaceUnchanged == UNCHANGED <<peVars, entryVars, loaderVars, crt, find, fuzz, platformVars>>

RaceCheck ==
  /\ \E t \in Callers :
       /\ race.pc[t] = "idle" /\ race.calls[t] < MaxInvocations
       /\ race' = GuardCheck(race, t)
  /\ RaceUnchanged

RaceAcquire ==
  /\ \E t \in Callers, ok \in BOOLEAN :
       /\ race.pc[t] = "passed"
       /\ race' = GuardAcquire(race, t, ok)
  /\ RaceUnchanged

RacePublish ==
  /\ \E t \in Callers :
       /\ race.pc[t] = "acquired"
       /\ race' = GuardPublish(race, t)
  /\ RaceUnchanged

RaceReturn ==
  /\ \E t \in Callers :
       /\ race.pc[t] \in {"skipped", "failed", "done"}
       /\ race' = GuardReturn(race, t)
  /\ RaceUnchanged

NextRace == RaceCheck \/ RaceAcquire \/ RacePublish \/ RaceReturn

SpecRace == InitRace /\ [][NextRace]_vars

MaxRngCalls == 4

\* gBS->LocateProtocol: the interface on success, NULL otherwise
LocateRng(status) == IF EFI_ERROR(status) THEN "NULL" ELSE "rng"

\* if (mCachedRngProtocol == NULL): line 78
CacheEmpty(cached) == cached = "NULL"

LazyPlatformGetRandomNumber64(s, e) ==
  LET s0 == [s EXCEPT !.calls = @ + 1, !.Rand = e.Rand, !.locate = "none",
                      !.getRng = "none"]
      s1 == IF CacheEmpty(s0.mCachedRngProtocol)
            THEN [s0 EXCEPT !.lookups = @ + 1, !.locate = e.locate,
                            !.mCachedRngProtocol = LocateRng(e.locate)]
            ELSE s0
  IN  IF e.Rand = "NULL" THEN [s0 EXCEPT !.ret = "FALSE"]
      ELSE IF s1.mCachedRngProtocol = "NULL" THEN [s1 EXCEPT !.ret = "FALSE"]
      ELSE [s1 EXCEPT !.getRng = e.getRng,
                      !.ret = IF EFI_ERROR(e.getRng) THEN "FALSE" ELSE "TRUE"]

RngEnvs ==
  [Rand : {"NULL", "buf"}, locate : {"EFI_SUCCESS", "EFI_NOT_FOUND"},
   getRng : {"EFI_SUCCESS", "EFI_DEVICE_ERROR"}]

InitRng ==
  /\ rng \in { [NoRng EXCEPT !.loader = l] : l \in {"Dxe", "DxeByProtocol"} }
  /\ hob = NoHob
  /\ PeIdle /\ EntryIdle /\ loader = "none" /\ LoaderIdle
  /\ crt = NoCrt /\ HarnessIdle

CallLazyPlatformGetRandomNumber64 ==
  /\ rng.calls < MaxRngCalls
  /\ \E e \in RngEnvs : rng' = LazyPlatformGetRandomNumber64(rng, e)
  /\ UNCHANGED <<peVars, entryVars, loaderVars, crt, harnessVars, hob>>

NextRng == CallLazyPlatformGetRandomNumber64

SpecRng == InitRng /\ [][NextRng]_vars

\* C23: across any sequence of LazyPlatformGetRandomNumber64 calls the lookup
\* of EFI_RNG_PROTOCOL is attempted at most once, whether or not the first
\* lookup succeeded.
C23_LookupAtMostOnce ==
  rng.lookups <= 1

(***************************************************************************)
(* DiscoverCryptoBinary (SharedCryptoLoaderStandaloneMM.c lines 117-186)   *)
(***************************************************************************)
\* firmware-volume HOBs in the HOB list; application files in a volume
MaxVolumes == 3
MaxFiles == 2

\* an application file: whether its name is TargetGuid, whether it holds a
\* PE32 section
FileKinds ==
  { [target |-> TRUE, pe32 |-> TRUE], [target |-> TRUE, pe32 |-> FALSE],
    [target |-> FALSE, pe32 |-> TRUE] }

VolumeKinds == UNION { [1..n -> FileKinds] : n \in 0..MaxFiles }

\* the section data of file i of volume v
SectionOf(v, i) == "pe32 of " \o ToString(v) \o "." \o ToString(i)

\* the inner loop over the application files of one volume (lines 140-152):
\* FfsFindNextFile until it fails or a name matches
RECURSIVE ScanFiles(_, _, _, _)
ScanFiles(d, vol, v, i) ==
  IF i > Len(vol)
  THEN [d EXCEPT !.Status = "EFI_NOT_FOUND"]
  ELSE IF vol[i].target
  THEN [d EXCEPT !.Found = TRUE, !.Status = "EFI_SUCCESS", !.FileHeader = <<v, i>>]
  ELSE ScanFiles([d EXCEPT !.FileHeader = <<v, i>>], vol, v, i + 1)

\* the outer loop over the firmware-volume HOBs (lines 132-156): a match
\* leaves the inner loop only
RECURSIVE ScanVolumes(_, _, _)
ScanVolumes(d, volumes, v) ==
  IF v > Len(volumes) THEN d
  ELSE ScanVolumes(ScanFiles([d EXCEPT !.FileHeader = <<>>], volumes[v], v, 1),
                   volumes, v + 1)

\* garbage: what the uninitialised Status holds when no volume is scanned
DiscoverCryptoBinary(volumes, hobList, garbage) ==
  LET d0 == [Found |-> FALSE, Status |-> garbage, FileHeader |-> <<>>]
      d1 == ScanVolumes(d0, volumes, 1)
      Status == IF ~d1.Found /\ ~EFI_ERROR(d1.Status) THEN "EFI_NOT_FOUND" ELSE d1.Status
      Out(st, data) == [Status |-> st, SectionData |-> data]
  IN  IF ~hobList THEN Out("EFI_NOT_FOUND", "unwritten")
      ELSE IF EFI_ERROR(Status) THEN Out(Status, "unwritten")
      \* FfsFindSectionData (EFI_SECTION_PE32, FileHeader, &SectionData)
      ELSE IF ~volumes[d1.FileHeader[1]][d1.FileHeader[2]].pe32
        THEN Out("EFI_NOT_FOUND", "unwritten")
      ELSE Out("EFI_SUCCESS", SectionOf(d1.FileHeader[1], d1.FileHeader[2]))

HobInputs ==
  { [NoHob EXCEPT !.volumes = vs, !.hobList = TRUE] :
      vs \in UNION { [1..n -> VolumeKinds] : n \in 1..MaxVolumes } }
  \cup { [NoHob EXCEPT !.hobList = h, !.garbage = g] :
           h \in BOOLEAN, g \in {"EFI_SUCCESS", "EFI_DEVICE_ERROR"} }

InitHob ==
  /\ hob \in HobInputs
  /\ rng = NoRng
  /\ PeIdle /\ EntryIdle /\ loader = "none" /\ LoaderIdle
  /\ crt = NoCrt /\ HarnessIdle

CallDiscoverCryptoBinary ==
  /\ hob.Status = "not called"
  /\ LET r == DiscoverCryptoBinary(hob.volumes, hob.hobList, hob.garbage)
     IN  hob' = [hob EXCEPT !.Status = r.Status, !.SectionData = r.SectionData]
  /\ UNCHANGED <<peVars, entryVars, loaderVars, crt, harnessVars, rng>>

NextHob == CallDiscoverCryptoBinary

SpecHob == InitHob /\ [][NextHob]_vars

\* the files named TargetGuid, as (volume, file) positions
TargetFiles ==
  { p \in (1..Len(hob.volumes)) \X (1..MaxFiles) :
      p[2] <= Len(hob.volumes[p[1]]) /\ hob.volumes[p[1]][p[2]].target }

\* C30: DiscoverCryptoBinary returns EFI_SUCCESS with the PE32 section data
\* of a matching file whenever some firmware-volume HOB contains an
\* application file named TargetGuid (every such file holding a PE32
\* section), wherever that volume stands among the firmware-volume HOBs and
\* whatever the other volumes contain; it returns an error status when no
\* volume contains such a file.
C30_FoundInAnyVolume ==
  hob.Status # "not called" =>
    /\ (/\ hob.hobList /\ TargetFiles # {}
        /\ \A p \in TargetFiles : hob.volumes[p[1]][p[2]].pe32)
         => /\ hob.Status = "EFI_SUCCESS"
            /\ \E p \in TargetFiles : hob.SectionData = SectionOf(p[1], p[2])
    /\ TargetFiles = {} => EFI_ERROR(hob.Status)

(***************************************************************************)
(* The CRT wrappers                                                        *)
(***************************************************************************)
\* C19: OneCryptoGetTime called before the dependencies were initialised
\* through OneCryptoCrtSetup returns EFI_INVALID_PARAMETER, and invokes no
\* dependency function pointer.
C19_GetTimeBeforeSetupInvalid ==
  (crt.fn = "OneCryptoGetTime" /\ crt.depsIn = "NULL")
    => /\ crt.Status = "EFI_INVALID_PARAMETER"
       /\ ~crt.invoked
====
